---- MODULE Spec2Model ----
\* llvm-kernel-testing: the build driver (build.py) and the lkt package.
\* The program is modelled as the sequential pipeline
\*   load source facts -> for each architecture (sorted): construct the
\*   architecture runner, plan its variants, run each variant (build, then
\*   boot), clean up -> generate the report.
\* External programs (make, merge_config.sh, boot-qemu.py, scripts/config,
\* clang, binutils, qemu) are the environment: their exit codes are chosen
\* nondeterministically, what is installed is fixed in the initial state.
EXTENDS Integers, Sequences, FiniteSets, TLC

VARIABLES
    pc,         \* position of the main program
    args,       \* parsed command line (build.py parse_arguments)
    env,        \* the machine: PATH, clang targets, versions, the kernel tree
    lsm,        \* LinuxSourceManager facts, or NoLsm before it is built
    todo,       \* architectures still to process, in processing order
    lkt,        \* the current LKTRunner object
    idx,        \* index in lkt.runners of the variant being run
    cur,        \* the LLVMKernelRunner being run
    results,    \* build.py 'results'
    report,     \* LKTReport.results
    build_dir,  \* architectures whose build folder exists on disk
    events,     \* history: what the program did, in order
    faults,     \* number of external commands that went wrong so far
    err         \* the exception that ended the program, "" if none

vars == <<pc, args, env, lsm, todo, lkt, idx, cur, results, report, build_dir, events, faults, err>>

-----------------------------------------------------------------------------
\* Bounds of the model.

\* At most this many architectures are requested on the command line.
MaxArchs == 2
\* At most this many external commands exit non-zero in one run.
MaxFaults == 2
\* At most this many results are handed to generate_report in SpecReport.
MaxResults == 2
\* At most this many things are missing on a machine without faults.
MaxDeviations == 2
\* The numbers of a version compared in SpecVersion are at most this.
MaxVersionPart == 1

-----------------------------------------------------------------------------
\* Python values.

\* dict.update(): keys of d2 win.
Update(d1, d2) ==
    [k \in (DOMAIN d1) \cup (DOMAIN d2) |-> IF k \in DOMAIN d2 THEN d2[k] ELSE d1[k]]

\* d[k] = v
Set(d, k, v) == Update(d, k :> v)

\* del d[k]
Del(d, k) == [x \in (DOMAIN d) \ {k} |-> d[x]]

\* d.get(k, default)
Get(d, k, default) == IF k \in DOMAIN d THEN d[k] ELSE default

EmptyDict == <<>>

\* item in list
InSeq(x, s) == \E i \in 1..Len(s) : s[i] = x

\* Lexicographic comparison of integer tuples of the same length, as Python
\* compares tuples.
RECURSIVE TupleLT(_, _)
TupleLT(a, b) ==
    IF a = <<>> \/ b = <<>> THEN Len(a) < Len(b)
    ELSE IF a[1] # b[1] THEN a[1] < b[1]
    ELSE TupleLT(Tail(a), Tail(b))

\* Version.__lt__ and the operators functools.total_ordering derives from
\* __lt__ and __eq__.
VerLT(a, b) == TupleLT(a, b)
VerEQ(a, b) == a = b
VerLE(a, b) == VerLT(a, b) \/ VerEQ(a, b)
VerGT(a, b) == ~VerLT(a, b) /\ ~VerEQ(a, b)
VerGE(a, b) == ~VerLT(a, b)

DEFAULT_VERSION == <<0, 0, 0>>

\* The comparison operators as Python evaluates them. An operand is a plain
\* tuple or a Version object, key being the tuple itself or Version._key.
\* The methods answer "True", "False" or "NotImplemented".
PyTuple(key) == [kind |-> "tuple", key |-> key]
PyVersion(key) == [kind |-> "Version", key |-> key]
NotImplemented == "NotImplemented"
PyBool(b) == IF b THEN "True" ELSE "False"
PyNot(r) == IF r = NotImplemented THEN r ELSE PyBool(r = "False")
CompareOps == {"==", "!=", "<", "<=", ">", ">="}

\* The operator Python tries on the right operand when the left one's
\* method answers NotImplemented.
Reflected(op) ==
    CASE op = "<" -> ">" [] op = ">" -> "<" [] op = "<=" -> ">=" [] op = ">=" -> "<="
      [] OTHER -> op

\* The rich comparison methods of the built-in tuple: NotImplemented unless
\* the other operand is a tuple.
tuple_method(op, self, other) ==
    IF other.kind # "tuple" THEN NotImplemented
    ELSE CASE op = "==" -> PyBool(self.key = other.key)
           [] op = "!=" -> PyBool(self.key # other.key)
           [] op = "<" -> PyBool(TupleLT(self.key, other.key))
           [] op = "<=" -> PyBool(TupleLT(self.key, other.key) \/ self.key = other.key)
           [] op = ">" -> PyBool(TupleLT(other.key, self.key))
           [] OTHER -> PyBool(TupleLT(other.key, self.key) \/ self.key = other.key)

\* Version._is_valid_operand and Version._get_key
Version_is_valid_operand(other) == other.kind \in {"tuple", "Version"}
Version_get_key(other) == other.key

\* Version.__eq__
Version__eq__(self, other) ==
    IF ~Version_is_valid_operand(other) THEN NotImplemented
    ELSE PyBool(self.key = Version_get_key(other))

\* Version.__lt__
Version__lt__(self, other) ==
    IF ~Version_is_valid_operand(other) THEN NotImplemented
    ELSE PyBool(TupleLT(self.key, Version_get_key(other)))

\* object.__ne__: the inverse of __eq__ unless that is NotImplemented.
Version__ne__(self, other) == PyNot(Version__eq__(self, other))

\* functools.total_ordering, _le_from_lt: self < other or self == other
Version__le__(self, other) ==
    LET op_result == Version__lt__(self, other)
    IN  IF op_result = NotImplemented THEN op_result
        ELSE IF op_result = "True" THEN "True" ELSE Version__eq__(self, other)

\* A __gt__ that is the inverse of __lt__.
Version__gt__not_lt(self, other) == PyNot(Version__lt__(self, other))

\* functools.total_ordering, _gt_from_lt: not self < other and self != other
Version__gt__(self, other) ==
    LET op_result == Version__lt__(self, other)
    IN  IF op_result = NotImplemented THEN op_result
        ELSE IF op_result = "True" THEN "False" ELSE Version__ne__(self, other)

\* functools.total_ordering, _ge_from_lt: not self < other
Version__ge__(self, other) == PyNot(Version__lt__(self, other))

Version_method(op, self, other) ==
    CASE op = "==" -> Version__eq__(self, other)
      [] op = "!=" -> Version__ne__(self, other)
      [] op = "<" -> Version__lt__(self, other)
      [] op = "<=" -> Version__le__(self, other)
      [] op = ">" -> Version__gt__(self, other)
      [] OTHER -> Version__ge__(self, other)

PyMethod(op, self, other) ==
    IF self.kind = "tuple" THEN tuple_method(op, self, other)
    ELSE Version_method(op, self, other)

\* 'a op b': the method of the left operand, then the reflected method of
\* the right operand (Version is no subclass of tuple, so the order is never
\* the other one); if both answer NotImplemented, == and != compare
\* identities and the ordering operators raise TypeError.
PyCompare(op, a, b) ==
    LET first == PyMethod(op, a, b)
        second == PyMethod(Reflected(op), b, a)
    IN  IF first # NotImplemented THEN first
        ELSE IF second # NotImplemented THEN second
        ELSE IF op = "==" THEN PyBool(a = b)
        ELSE IF op = "!=" THEN PyBool(a # b)
        ELSE "TypeError"

\* Entries of LLVMKernelRunner.configs. A str naming a make target, a str
\* ending in '.config' (fragment), a str 'CONFIG_<s>=<v>' (option, Opt(s, v)) and a
\* Path to an out-of-tree distribution configuration.
Str(s) == [t |-> "target", s |-> s, v |-> ""]
Frag(s) == [t |-> "fragment", s |-> s, v |-> ""]
Opt(s, v) == [t |-> "option", s |-> s, v |-> v]
PathCfg(distro, name) == [t |-> "path", s |-> name, v |-> distro]

\* A dictionary value rendered as it appears on the make command line.
ON == "1"
OFF == "0"

\* result['name'] and the names of skipped groups: the words of the string.
Name(arch, words) == <<Str(arch)>> \o words

\* f"{distro} config", as it appears in the name of a distribution build.
DistroConfigName(distro) == [t |-> "target", s |-> "config", v |-> distro]

\* result['boot']: the first word of the string and the rest of it.
Boot(status, why) == [status |-> status, why |-> why]

\* result['reason']: the fixed text and the version interpolated in it.
Reason(text, ver) == [text |-> text, ver |-> ver]
NoVer == <<>>

-----------------------------------------------------------------------------
\* lkt/runner.py

\* LLVMKernelRunner.__init__
LLVMKernelRunner ==
    [bootable |-> FALSE,
     boot_arch |-> "",
     configs |-> <<>>,
     image_target |-> "",
     make_targets |-> <<>>,
     make_vars |-> ("HOSTLDFLAGS" :> "-fuse-ld=lld" @@ "LLVM" :> ON
                    @@ "LLVM_IAS" :> ON @@ "LOCALVERSION" :> "-cbl"),
     only_test_boot |-> FALSE,
     override_make_vars |-> EmptyDict,
     qemu_arch |-> "",
     result |-> EmptyDict]

\* ClangVersion(): the version of the clang in PATH, (0, 0, 0) without one.
ClangVersion(e) == IF <<"", "clang">> \in e.path THEN e.llvm_version ELSE DEFAULT_VERSION

\* QemuVersion(arch=...)
QemuVersion(e, arch) ==
    IF <<"qemu-system-", arch>> \in e.path THEN e.qemu_version ELSE DEFAULT_VERSION

\* BinutilsVersion(binary=...)
BinutilsVersion(e, binary) ==
    IF binary \in e.path THEN e.binutils_version ELSE DEFAULT_VERSION

\* shutil.which(binary) for the binaries of PATH.
Which(e, binary) == binary \in e.path

\* LKTRunner.__init__
LKTRunner(e, arch, clang_target) ==
    [arch |-> arch,
     clang_target |-> clang_target,
     make_vars |-> ("ARCH" :> arch),
     only_test_boot |-> FALSE,
     targets |-> {},
     save_objects |-> FALSE,
     llvm_version |-> ClangVersion(e),
     results |-> <<>>,
     runners |-> <<>>,
     cross_compile |-> "",
     has_cross_compile |-> FALSE,
     binutils_version |-> DEFAULT_VERSION,
     qemu_version |-> DEFAULT_VERSION]

SkipResult(name, reason) ==
    ("name" :> name @@ "build" :> "skipped" @@ "reason" :> reason)

\* LKTRunner._skip_all: the results are replaced by the one skip result.
SkipAll(self, reason) ==
    [self EXCEPT !.results = <<SkipResult(Name(self.make_vars["ARCH"], <<Str("kernels")>>), reason)>>]

\* A _skip_one that records nothing.
SkipNone(self, name, reason) == self

\* LKTRunner._skip_one
SkipOne(self, name, reason) ==
    [self EXCEPT !.results = Append(self.results, SkipResult(name, reason))]

\* self._runners.append(runner)
AddRunner(self, runner) == [self EXCEPT !.runners = Append(self.runners, runner)]

\* What a subclass run() hands back: the runner object, and whether it
\* returned a _skip_all ("skip"), went on into LKTRunner.run ("super") or
\* raised ("raise").
Planned(self, ret, exc) == [self |-> self, ret |-> ret, exc |-> exc]

\* for runner in runners: runner.bootable = True;
\*                         runner.only_test_boot = self.only_test_boot
MarkBootable(self, runners) ==
    [i \in 1..Len(runners) |->
        [runners[i] EXCEPT !.bootable = TRUE, !.only_test_boot = self.only_test_boot]]

\* The first prefix of the list whose '<prefix>as' is in PATH; the loops of
\* the constructors leave the last prefix when there is none.
RECURSIVE FirstWithAs(_, _)
FirstWithAs(e, prefixes) ==
    IF Len(prefixes) = 1 \/ Which(e, <<prefixes[1], "as">>) THEN prefixes[1]
    ELSE FirstWithAs(e, Tail(prefixes))

-----------------------------------------------------------------------------
\* lkt/hexagon.py

HEXAGON_CLANG_TARGET == "hexagon-linux-musl"

HexagonLKTRunner(e) == LKTRunner(e, "hexagon", HEXAGON_CLANG_TARGET)

Hexagon_add_defconfig_runners(self) ==
    AddRunner(self, [LLVMKernelRunner EXCEPT !.configs = <<Str("defconfig")>>])

Hexagon_add_otherconfig_runners(self, l) ==
    LET have_ffb92ce826fd8 == VerGE(l.version, <<5, 16, 0>>) \/ "ffb92ce826fd8" \in l.commits
        cfgs == <<Str("allmodconfig")>> \o
                (IF VerGE(self.llvm_version, <<19, 0, 0>>)
                 THEN <<Opt("FORTIFY_KUNIT_TEST", "n")>> ELSE <<>>)
    IN  IF have_ffb92ce826fd8 /\ VerGE(self.llvm_version, <<13, 0, 0>>)
        THEN AddRunner(self, [LLVMKernelRunner EXCEPT !.configs = cfgs])
        ELSE SkipOne(self, Name("hexagon", <<Str("allmodconfig")>>),
                     Reason("either lack of ffb92ce826fd8 or LLVM < 13.0.0", self.llvm_version))

HexagonRun(self, e, l) ==
    IF self.only_test_boot
    THEN Planned(SkipAll(self, Reason("only testing boot", NoVer)), "skip", "")
    ELSE IF ~("788dcee0306e1" \in l.commits /\ "f1f99adf05f21" \in l.commits)
    THEN Planned(SkipAll(self, Reason("missing 788dcee0306e, 6fff7410f6be, and/or f1f99adf05f2", <<5, 13, 0>>)),
                 "skip", "")
    ELSE
        LET s1 == IF "6f5b41a2f5a63" \notin l.commits
                  THEN [self EXCEPT !.make_vars = Set(@, "CROSS_COMPILE", HEXAGON_CLANG_TARGET)]
                  ELSE self
            s2 == IF "def" \in s1.targets THEN Hexagon_add_defconfig_runners(s1) ELSE s1
            s3 == IF "other" \in s2.targets THEN Hexagon_add_otherconfig_runners(s2, l) ELSE s2
        IN  Planned(s3, "super", "")

-----------------------------------------------------------------------------
\* lkt/s390.py

S390_CLANG_TARGET == "s390x-linux-gnu"
S390_CROSS_COMPILE == "s390x-linux-gnu-"
S390_QEMU_ARCH == "s390x"
S390_MIN_LNX_VER == <<5, 6, 0>>
S390_HARD_MIN_LLVM_VER == <<13, 0, 0>>
S390_MIN_QEMU_VER == <<6, 0, 0>>
S390_MIN_IAS_LNX_VER == <<5, 19, 0>>

S390LLVMKernelRunner ==
    [LLVMKernelRunner EXCEPT !.boot_arch = "s390", !.image_target = "bzImage",
                             !.qemu_arch = S390_QEMU_ARCH]

S390LKTRunner(e) ==
    [LKTRunner(e, "s390", S390_CLANG_TARGET) EXCEPT
        !.binutils_version = BinutilsVersion(e, <<S390_CROSS_COMPILE, "as">>),
        !.qemu_version = QemuVersion(e, S390_QEMU_ARCH)]

\* MinToolVersion(folder=..., arch=..., tool='llvm'): what
\* scripts/min-tool-version.sh prints with SRCARCH set, (0, 0, 0) when the
\* tree has no such script.
MinToolVersion(e, arch) ==
    IF "scripts/min-tool-version.sh" \in e.linux.files
    THEN e.linux.min_llvm[arch] ELSE DEFAULT_VERSION

\* LinuxSourceManager.get_min_llvm_ver(arch): the minimum LLVM version the
\* tree asks for.
GetMinLlvmVer(e, arch) == MinToolVersion(e, arch)

\* A minimum that is always the hard one.
HardMinOnly(tree_min, hard_min_llvm_ver) == hard_min_llvm_ver

\* if (min_llvm_ver := self.lsm.get_min_llvm_ver(KERNEL_ARCH)) <
\* HARD_MIN_LLVM_VER: min_llvm_ver = HARD_MIN_LLVM_VER (also
\* lkt/loongarch.py)
min_llvm_ver(tree_min, hard_min_llvm_ver) ==
    IF VerLT(tree_min, hard_min_llvm_ver) THEN hard_min_llvm_ver ELSE tree_min

S390_add_defconfig_runners(self) ==
    AddRunner(self, [S390LLVMKernelRunner EXCEPT
                        !.bootable = TRUE,
                        !.configs = <<Str("defconfig")>>,
                        !.only_test_boot = self.only_test_boot])

S390_other_runner(l, config_target) ==
    LET c1 == <<Str(config_target)>>
        c2 == IF config_target = "allmodconfig"
                 /\ "925d046e7e52" \in l.commits /\ "876e480da2f74" \notin l.commits
              THEN Append(c1, Opt("INFINIBAND_ADDR_TRANS", "n")) ELSE c1
        c3 == IF config_target = "allmodconfig" /\ "CONFIG_WERROR" \in l.configs
              THEN Append(c2, Opt("WERROR", "n")) ELSE c2
    IN  [S390LLVMKernelRunner EXCEPT !.configs = c3]

S390_add_otherconfig_runners(self, l) ==
    [self EXCEPT !.runners = @ \o <<S390_other_runner(l, "allmodconfig"),
                                    S390_other_runner(l, "allnoconfig"),
                                    S390_other_runner(l, "tinyconfig")>>]

S390_distro_runner(l, distro) ==
    [S390LLVMKernelRunner EXCEPT
        !.bootable = TRUE,
        !.configs = <<PathCfg(distro, "s390x")>> \o
                    (IF distro = "fedora" /\ "efe5e0fea4b24" \notin l.commits
                     THEN <<Opt("MARCH_Z13", "n"), Opt("MARCH_Z196", "y")>>
                     ELSE <<>>)]

S390_add_distroconfig_runners(self, l) ==
    [self EXCEPT !.runners = @ \o <<S390_distro_runner(l, "debian"),
                                    S390_distro_runner(l, "fedora"),
                                    S390_distro_runner(l, "opensuse")>>]

\* A run() that never looks at the QEMU version.
QemuNeverTooOld(self, min_qemu_ver) == self

\* if self._qemu_version < MIN_QEMU_VER: every bootable runner loses its
\* boot test and gets the reason (also lkt/loongarch.py).
QemuTooOld(self, min_qemu_ver) ==
    IF VerLT(self.qemu_version, min_qemu_ver)
    THEN [self EXCEPT !.runners =
            [i \in 1..Len(@) |->
                IF @[i].bootable
                THEN [@[i] EXCEPT !.bootable = FALSE,
                                  !.result = Set(@, "boot", Boot("skipped", "due to QEMU < MIN_QEMU_VER"))]
                ELSE @[i]]]
    ELSE self

S390_gnu_vars(e) ==
    (IF "ld.lld:elf64_s390" \notin e.tools \/ "arch/s390/Makefile:-z notext" \notin e.linux.files
     THEN <<"LD">> ELSE <<>>)
    \o (IF "llvm-objcopy:elf64-s390" \notin e.tools \/ "arch/s390/boot/Makefile:--set-section-flags .vmlinux.info=alloc,load" \notin e.linux.files
        THEN <<"OBJCOPY">> ELSE <<>>)
    \o (IF "arch/s390/boot/Makefile:objdump -t -j workaround" \notin e.linux.files THEN <<"OBJDUMP">> ELSE <<>>)

S390_tool(variable) ==
    CASE variable = "LD" -> <<S390_CROSS_COMPILE, "ld">>
      [] variable = "OBJCOPY" -> <<S390_CROSS_COMPILE, "objcopy">>
      [] OTHER -> <<S390_CROSS_COMPILE, "objdump">>

S390Run(self, e, l) ==
    LET min_ver == min_llvm_ver(GetMinLlvmVer(e, "s390"), S390_HARD_MIN_LLVM_VER)
    IN
    IF VerLT(l.version, S390_MIN_LNX_VER)
    THEN Planned(SkipAll(self, Reason("missing fixes from", S390_MIN_LNX_VER)), "skip", "")
    ELSE IF VerGE(self.binutils_version, <<2, 39, 50>>) /\ "80ddf5ce1c929" \notin l.commits
    THEN Planned(SkipAll(self, Reason("linker error with CONFIG_RELOCATABLE=n", NoVer)), "skip", "")
    ELSE IF VerLT(self.llvm_version, min_ver)
    THEN Planned(SkipAll(self, Reason("LLVM <", min_ver)), "skip", "")
    ELSE IF ~Which(e, <<"", "ld.lld">>) \/ ~Which(e, <<"", "llvm-objcopy">>)
    THEN Planned(self, "raise", "TypeError")
    ELSE
        LET gnu == S390_gnu_vars(e)
            tools == [v \in {gnu[i] : i \in 1..Len(gnu)} |-> S390_tool(v)]
            s1 == [self EXCEPT !.make_vars = Update(@, tools)]
            s2 == IF VerLT(l.version, S390_MIN_IAS_LNX_VER)
                  THEN [s1 EXCEPT !.make_vars =
                            Update(@, "CROSS_COMPILE" :> S390_CROSS_COMPILE @@ "LLVM_IAS" :> OFF)]
                  ELSE s1
            s3 == IF "def" \in s2.targets THEN S390_add_defconfig_runners(s2) ELSE s2
            s4 == IF ~s3.only_test_boot /\ "other" \in s3.targets
                  THEN S390_add_otherconfig_runners(s3, l) ELSE s3
            s5 == IF ~s4.only_test_boot /\ "distro" \in s4.targets
                  THEN S390_add_distroconfig_runners(s4, l) ELSE s4
        IN  Planned(QemuTooOld(s5, S390_MIN_QEMU_VER), "super", "")

-----------------------------------------------------------------------------
\* lkt/powerpc.py

PPC_CLANG_TARGET == "powerpc-linux-gnu"
PPC_MIN_IAS_LNX_VER == <<5, 18, 0>>
PPC_MIN_IAS_LLVM_VER == <<14, 0, 2>>

ppc64_be_defaults_to_elfv2(e, l) ==
    IF "CONFIG_PPC64_BIG_ENDIAN_ELF_ABI_V2" \notin l.configs
    THEN VerGE(l.version, <<6, 2, 0>>)
    ELSE "arch/powerpc/Kconfig:ELF ABI V2 if LD_IS_BFD" \in e.linux.files

PowerPCLLVMKernelRunner ==
    [LLVMKernelRunner EXCEPT !.boot_arch = "ppc64le",
                             !.image_target = "zImage.epapr",
                             !.qemu_arch = "ppc64",
                             !.make_vars = Set(@, "LLVM_IAS", OFF)]

\* The constructor's loop assigns before it tests, so CROSS_COMPILE is always
\* present: the first prefix with an assembler, or the last prefix.
PowerPCLKTRunner(e) ==
    [LKTRunner(e, "powerpc", PPC_CLANG_TARGET) EXCEPT
        !.make_vars = Set(@, "CROSS_COMPILE",
                          FirstWithAs(e, <<"powerpc64-linux-gnu-", "powerpc-linux-gnu-",
                                           "powerpc64le-linux-gnu-">>))]

\* self._ppc64_vars and self._ppc64le_vars as run() fills them in.
PPC_ias_vars(self, l) ==
    IF VerGE(l.version, PPC_MIN_IAS_LNX_VER) /\ VerGE(self.llvm_version, PPC_MIN_IAS_LLVM_VER)
    THEN "LLVM_IAS" :> ON ELSE EmptyDict

PPC_ppc64_vars(self, l) == PPC_ias_vars(self, l)

PPC_ppc64le_vars(self, l) ==
    Update(IF "0355785313e21" \notin l.commits /\ "CROSS_COMPILE" \in DOMAIN self.make_vars
           THEN "LD" :> <<self.make_vars["CROSS_COMPILE"], "ld">> ELSE EmptyDict,
           PPC_ias_vars(self, l))

PPC_RELOC_SKIP == Boot("skipped", "due to CONFIG_RELOCATABLE=y, LLVM < 12.0.0 (2fc704a0a529d), and Linux < 5.19 (7b4537199a4a)")

PPC_wa_werror(self, l) ==
    \/ "9451c79bc39e" \notin l.commits
    \/ "51696f39cbee5" \notin l.commits /\ VerGE(self.llvm_version, <<12, 0, 0>>)
    \/ VerGE(l.version, <<5, 18, 0>>) /\ VerLT(self.llvm_version, <<14, 0, 0>>)

\* ppc44x_defconfig is planned and booted whatever the compiler and the
\* tree are.
PPC_add_ppc44x_unconditionally(self, e, l) ==
    AddRunner(self, [PowerPCLLVMKernelRunner EXCEPT
                        !.boot_arch = "ppc32",
                        !.bootable = TRUE,
                        !.configs = <<Str("ppc44x_defconfig")>>,
                        !.image_target = "uImage",
                        !.make_targets = IF ~self.only_test_boot THEN Append(@, "uImage") ELSE @,
                        !.only_test_boot = self.only_test_boot,
                        !.qemu_arch = "ppc"])

\* The ppc44x_defconfig part of _add_defconfig_runners.
PPC_add_ppc44x(self, e, l) ==
    LET has_44x_hack == "arch/powerpc/platforms/Kconfig.cputype:depends on !CC_IS_CLANG" \in e.linux.files
        cbl_1814 == "2255411d1d0f0" \in l.commits /\ ~has_44x_hack
        cbl_1679 == VerLT(self.llvm_version, <<16, 0, 0>>) /\ cbl_1814
        cbl_1345 == VerLT(self.llvm_version, <<12, 0, 1>>) /\ "48cf12d88969b" \in l.commits
        bootable == ~(cbl_1345 \/ cbl_1814)
        runner == [PowerPCLLVMKernelRunner EXCEPT
                     !.boot_arch = "ppc32",
                     !.bootable = bootable,
                     !.result = IF bootable THEN @
                                ELSE Set(@, "boot",
                                         IF cbl_1345
                                         THEN Boot("skipped", "due to lr save/restore (CBL 1345)")
                                         ELSE Boot("skipped", "due to -mcpu=440 (CBL 1814)")),
                     !.configs = <<Str("ppc44x_defconfig")>>,
                     !.image_target = "uImage",
                     !.make_targets = IF ~self.only_test_boot THEN Append(@, "uImage") ELSE @,
                     !.only_test_boot = self.only_test_boot,
                     !.qemu_arch = "ppc"]
    IN  IF cbl_1679
        THEN SkipOne(self, Name("powerpc", <<Str("ppc44x_defconfig")>>),
                     Reason("LLVM < 16.0.0 with 2255411d1d0f0 present (CBL 1679)", self.llvm_version))
        ELSE AddRunner(self, runner)

\* The pmac32_defconfig part of _add_defconfig_runners.
PPC_add_pmac32(self, l) ==
    LET bootable == VerGE(self.llvm_version, <<14, 0, 0>>)
        runner == [PowerPCLLVMKernelRunner EXCEPT
                     !.boot_arch = "ppc32_mac",
                     !.bootable = bootable,
                     !.result = IF bootable THEN @
                                ELSE Set(@, "boot", Boot("skipped", "due to LLVM < 14.0.0")),
                     !.configs = <<Str("pmac32_defconfig")>> \o
                                 (IF "0b5e06e9cb156" \notin l.commits
                                  THEN <<Opt("SERIAL_PMACZILOG", "y"),
                                         Opt("SERIAL_PMACZILOG_CONSOLE", "y")>>
                                  ELSE <<>>),
                     !.image_target = "vmlinux",
                     !.only_test_boot = self.only_test_boot,
                     !.qemu_arch = "ppc"]
    IN  IF "297565aa22cfa" \in l.commits
        THEN AddRunner(self, runner)
        ELSE SkipOne(self, Name("powerpc", <<Str("pmac32_defconfig")>>),
                     Reason("missing 297565aa22cfa (CBL 563)", <<5, 18, 0>>))

\* The big endian variants with the variables of self._ppc64_vars alone,
\* whatever the ABI.
PPC_be_runner_ppc64_vars_only(self, e, l, config) ==
    [PowerPCLLVMKernelRunner EXCEPT
        !.configs = <<Str(config)>> \o
                    (IF PPC_wa_werror(self, l)
                     THEN <<Opt("PPC_DISABLE_WERROR", "y")>> ELSE <<>>),
        !.make_vars = Update(@, PPC_ppc64_vars(self, l))]

\* ppc64_guest_defconfig and ppc64_defconfig: big endian, linked with GNU ld
\* and assembled with GNU as unless the kernel defaults to ELFv2.
PPC_be_runner(self, e, l, config) ==
    LET no_elfv2 == ~ppc64_be_defaults_to_elfv2(e, l)
        mv1 == Update(PowerPCLLVMKernelRunner.make_vars, PPC_ppc64_vars(self, l))
        mv2 == IF no_elfv2
               THEN Update(mv1, "LD" :> <<self.make_vars["CROSS_COMPILE"], "ld">>
                                @@ "LLVM_IAS" :> OFF)
               ELSE mv1
    IN  [PowerPCLLVMKernelRunner EXCEPT
            !.configs = <<Str(config)>> \o
                        (IF PPC_wa_werror(self, l)
                         THEN <<Opt("PPC_DISABLE_WERROR", "y")>> ELSE <<>>),
            !.make_vars = mv2]

PPC_add_defconfig_runners(self, e, l) ==
    LET le_vars == PPC_ppc64le_vars(self, l)
        s1 == PPC_add_ppc44x(self, e, l)
        s2 == PPC_add_pmac32(s1, l)
        ppc64_guest == [PPC_be_runner(self, e, l, "ppc64_guest_defconfig") EXCEPT
                          !.boot_arch = "ppc64",
                          !.bootable = TRUE,
                          !.image_target = "vmlinux",
                          !.only_test_boot = self.only_test_boot]
        powernv_mv == Update(PowerPCLLVMKernelRunner.make_vars, le_vars)
        powernv == [PowerPCLLVMKernelRunner EXCEPT
                      !.bootable = TRUE,
                      !.configs = <<Str("powernv_defconfig")>>,
                      !.make_vars =
                          IF VerLT(self.llvm_version, <<12, 0, 0>>) /\ "LD" \notin DOMAIN self.make_vars
                          THEN Set(powernv_mv, "LD", <<self.make_vars["CROSS_COMPILE"], "ld">>)
                          ELSE powernv_mv,
                      !.only_test_boot = self.only_test_boot]
        le_bootable == \/ "LD" \in DOMAIN le_vars
                       \/ VerGE(self.llvm_version, <<12, 0, 0>>)
                       \/ "CONFIG_MODULE_REL_CRCS" \notin l.configs
        ppc64le_guest == [PowerPCLLVMKernelRunner EXCEPT
                            !.bootable = le_bootable,
                            !.result = IF le_bootable THEN @ ELSE Set(@, "boot", PPC_RELOC_SKIP),
                            !.configs = <<Str("ppc64le_guest_defconfig")>>,
                            !.make_vars = Update(@, le_vars),
                            !.only_test_boot = self.only_test_boot]
        ppc64le == [PowerPCLLVMKernelRunner EXCEPT
                      !.configs = <<Str("ppc64le_defconfig")>>,
                      !.make_vars = Update(@, le_vars)]
        s3 == [s2 EXCEPT !.runners = @ \o <<ppc64_guest, powernv, ppc64le_guest>>]
    IN  IF self.only_test_boot THEN s3
        ELSE [s3 EXCEPT !.runners =
                @ \o <<PPC_be_runner(self, e, l, "ppc64_defconfig"), ppc64le>>]

PPC_add_otherconfig_runners(self, e, l) ==
    LET can_select_elfv2 == "a11334d8327b" \in l.commits /\ VerGE(self.llvm_version, <<15, 0, 0>>)
        elfv2_on_by_default == ppc64_be_defaults_to_elfv2(e, l)
        allmod == [PowerPCLLVMKernelRunner EXCEPT
                     !.configs = <<Str("allmodconfig"), Opt("WERROR", "n")>> \o
                                 (IF ~elfv2_on_by_default
                                  THEN <<Opt("PPC64_BIG_ENDIAN_ELF_ABI_V2", "y")>>
                                  ELSE <<>>),
                     !.make_vars = Update(@, PPC_ppc64_vars(self, l))]
        s1 == IF can_select_elfv2 \/ elfv2_on_by_default
              THEN AddRunner(self, allmod)
              ELSE SkipOne(self, Name("powerpc", <<Str("allmodconfig")>>),
                           Reason("lack of a11334d8327b with LLVM < 15.0.0 or lack of 9d90161ca5c7",
                                  self.llvm_version))
    IN  [s1 EXCEPT !.runners =
            @ \o <<[PowerPCLLVMKernelRunner EXCEPT !.configs = <<Str("allnoconfig")>>],
                   [PowerPCLLVMKernelRunner EXCEPT !.configs = <<Str("tinyconfig")>>]>>]

PPC_add_distro(self, e, l, distro, config_name) ==
    LET le_vars == PPC_ppc64le_vars(self, l)
        bootable == ~(/\ "LD" \notin DOMAIN le_vars
                      /\ VerLT(self.llvm_version, <<12, 0, 0>>)
                      /\ "CONFIG_MODULE_REL_CRCS" \in l.configs
                      /\ "RELOCATABLE" \in e.distro_set)
        runner == [PowerPCLLVMKernelRunner EXCEPT
                     !.configs = <<PathCfg(distro, config_name)>>,
                     !.bootable = bootable,
                     !.result = IF bootable THEN @ ELSE Set(@, "boot", PPC_RELOC_SKIP),
                     !.make_vars = Update(@, le_vars)]
    IN  IF /\ distro = "opensuse"
           /\ "231b232df8f67" \in l.commits
           /\ "6fcb574125e67" \notin l.commits
           /\ VerLE(self.llvm_version, <<12, 0, 0>>)
        THEN SkipOne(self, <<Str("powerpc"), DistroConfigName(distro)>>,
                     Reason("https://github.com/ClangBuiltLinux/linux/issues/1160", NoVer))
        ELSE AddRunner(self, runner)

PPC_add_distroconfig_runners(self, e, l) ==
    PPC_add_distro(PPC_add_distro(PPC_add_distro(self, e, l, "debian", "powerpc64le"),
                                  e, l, "fedora", "ppc64le"),
                   e, l, "opensuse", "ppc64le")

PowerPCRun(self, e, l) ==
    LET s1 == IF "def" \in self.targets THEN PPC_add_defconfig_runners(self, e, l) ELSE self
        s2 == IF ~s1.only_test_boot /\ "other" \in s1.targets
              THEN PPC_add_otherconfig_runners(s1, e, l) ELSE s1
        s3 == IF ~s2.only_test_boot /\ "distro" \in s2.targets
              THEN PPC_add_distroconfig_runners(s2, e, l) ELSE s2
    IN  Planned(s3, "super", "")

-----------------------------------------------------------------------------
\* lkt/arm.py

ARM_CLANG_TARGET == "arm-linux-gnueabi"
ARM_QEMU_ARCH == "arm"
ARM_MIN_IAS_LNX_VER == <<5, 13, 0>>
ARM_MIN_IAS_LLVM_VER == <<13, 0, 0>>
ARM_MIN_LLVM_VER_CFI == <<16, 0, 0>>

\* disable_be(linux): the big endian option does not depend on !LD_IS_LLD.
disable_be(e) == "arch/arm/mm/Kconfig:depends on !LD_IS_LLD" \notin e.linux.files

ArmLLVMKernelRunner ==
    [LLVMKernelRunner EXCEPT !.boot_arch = "arm32_v7", !.image_target = "zImage",
                             !.qemu_arch = ARM_QEMU_ARCH]

ArmLKTRunner(e) == LKTRunner(e, "arm", ARM_CLANG_TARGET)

Arm_defconfig_runner(self, e, config_target, boot_arch) ==
    LET aspeed_dir == "arch/arm/boot/dts/aspeed" \in e.linux.files
        dtb == IF config_target = "multi_v5_defconfig"
               THEN <<IF aspeed_dir THEN "aspeed/aspeed-bmc-opp-palmetto.dtb"
                      ELSE "aspeed-bmc-opp-palmetto.dtb">>
               ELSE IF config_target = "aspeed_g5_defconfig"
               THEN <<IF aspeed_dir THEN "aspeed/aspeed-bmc-opp-romulus.dtb"
                      ELSE "aspeed-bmc-opp-romulus.dtb">>
               ELSE <<>>
    IN  [ArmLLVMKernelRunner EXCEPT
            !.boot_arch = boot_arch,
            !.configs = <<Str(config_target)>>,
            !.make_targets = IF self.only_test_boot THEN @ \o dtb ELSE @]

Arm_add_defconfig_runners(self, e, l) ==
    LET r0 == <<Arm_defconfig_runner(self, e, "multi_v5_defconfig", "arm32_v5"),
                Arm_defconfig_runner(self, e, "aspeed_g5_defconfig", "arm32_v6"),
                Arm_defconfig_runner(self, e, "multi_v7_defconfig", "arm32_v7")>>
        thumb2 == "9d417cbe36eee" \in l.commits \/ "CONFIG_HAVE_FUTEX_CMPXCHG" \notin l.configs
        r1 == IF thumb2
              THEN Append(r0, [ArmLLVMKernelRunner EXCEPT
                                 !.configs = <<Str("multi_v7_defconfig"), Opt("THUMB2_KERNEL", "y")>>])
              ELSE r0
        s1 == IF thumb2 THEN self
              ELSE SkipOne(self, Name("arm", <<Str("multi_v7_defconfig"), Str("Thumb2")>>),
                           Reason("either lack of 9d417cbe36eee or presence of CONFIG_HAVE_FUTEX_CMPXCHG",
                                  <<5, 15, 0>>))
        cfi == /\ VerGE(self.llvm_version, ARM_MIN_LLVM_VER_CFI)
               /\ "arch/arm/Kconfig:select ARCH_SUPPORTS_CFI_CLANG" \in e.linux.files
        r2 == IF cfi
              THEN Append(r1, [ArmLLVMKernelRunner EXCEPT
                                 !.configs = <<Str("multi_v7_defconfig"), Opt("CFI_CLANG", "y")>>])
              ELSE r1
        s2 == IF cfi THEN s1
              ELSE SkipOne(s1, Name("arm", <<Str("CFI configs")>>),
                           Reason("either LLVM < 16.0.0 or Linux < 6.10.0", self.llvm_version))
    IN  [s2 EXCEPT !.runners = @ \o MarkBootable(self, r2)]

Arm_other_runner(e, l, config_target) ==
    LET c1 == <<Str(config_target)>>
        c2 == IF config_target = "allmodconfig" /\ disable_be(e)
              THEN Append(c1, Opt("CPU_BIG_ENDIAN", "n")) ELSE c1
        c3 == IF config_target = "allmodconfig" /\ "CONFIG_WERROR" \in l.configs
              THEN Append(c2, Opt("WERROR", "n")) ELSE c2
    IN  [ArmLLVMKernelRunner EXCEPT !.configs = c3]

Arm_add_otherconfig_runners(self, e, l) ==
    [self EXCEPT !.runners = @ \o <<Arm_other_runner(e, l, "allmodconfig"),
                                    Arm_other_runner(e, l, "allnoconfig"),
                                    Arm_other_runner(e, l, "tinyconfig")>>]

Arm_distro_runner(distro, config_name) ==
    [ArmLLVMKernelRunner EXCEPT !.bootable = distro # "fedora",
                                !.configs = <<PathCfg(distro, config_name)>>]

Arm_add_distroconfig_runners(self) ==
    [self EXCEPT !.runners = @ \o <<Arm_distro_runner("alpine", "armv7"),
                                    Arm_distro_runner("archlinux", "armv7"),
                                    Arm_distro_runner("debian", "armmp"),
                                    Arm_distro_runner("fedora", "armv7hl"),
                                    Arm_distro_runner("opensuse", "armv7hl")>>]

ArmRun(self, e, l) ==
    LET cross_compile == FirstWithAs(e, <<"arm-linux-gnu-", "arm-linux-gnueabihf-",
                                          "arm-linux-gnueabi-">>)
        s1 == IF "6f5b41a2f5a63" \notin l.commits
              THEN [self EXCEPT !.make_vars = Set(@, "CROSS_COMPILE", cross_compile)] ELSE self
        s2 == IF VerLT(s1.llvm_version, ARM_MIN_IAS_LLVM_VER) \/ VerLT(l.version, ARM_MIN_IAS_LNX_VER)
              THEN [s1 EXCEPT !.make_vars = Set(@, "LLVM_IAS", OFF)] ELSE s1
        s3 == IF "def" \in s2.targets THEN Arm_add_defconfig_runners(s2, e, l) ELSE s2
        s4 == IF ~s3.only_test_boot /\ "other" \in s3.targets
              THEN Arm_add_otherconfig_runners(s3, e, l) ELSE s3
        s5 == IF ~s4.only_test_boot /\ "distro" \in s4.targets
              THEN Arm_add_distroconfig_runners(s4) ELSE s4
    IN  Planned(s5, "super", "")

-----------------------------------------------------------------------------
\* lkt/arm64.py

ARM64_CLANG_TARGET == "aarch64-linux-gnu"
ARM64_CROSS_COMPILE == "aarch64-linux-gnu-"
ARM64_QEMU_ARCH == "aarch64"
ARM64_MIN_IAS_LNX_VER == <<5, 9, 0>>

can_build_arm64_big_endian(e, llvm_version) ==
    LET be_broken == "arch/arm64/Kconfig:CPU_BIG_ENDIAN depends on BROKEN" \in e.linux.files
        be_exists == "arch/arm64/Kconfig:config CPU_BIG_ENDIAN" \in e.linux.files
    IN  VerGE(llvm_version, <<15, 0, 0>>) /\ ~be_broken /\ be_exists

\* LinuxSourceManager.arch_supports_kcfi(arch)
arch_supports_kcfi(e, arch) == <<"arch_supports_kcfi", arch>> \in e.linux.kcfi

\* LinuxSourceManager.get_cfi_y_config()
get_cfi_y_config(e) ==
    IF <<"cfi_y_config", "CONFIG_CFI">> \in e.linux.kcfi THEN Opt("CFI", "y") ELSE Opt("CFI_CLANG", "y")

Arm64LLVMKernelRunner ==
    [LLVMKernelRunner EXCEPT !.boot_arch = "arm64", !.image_target = "Image.gz",
                             !.qemu_arch = ARM64_QEMU_ARCH]

Arm64LKTRunner(e) == LKTRunner(e, "arm64", ARM64_CLANG_TARGET)

Arm64Runner(configs) == [Arm64LLVMKernelRunner EXCEPT !.configs = configs]

Arm64_add_defconfig_runners(self, e, l) ==
    LET be == can_build_arm64_big_endian(e, self.llvm_version)
        lto == "CONFIG_LTO_CLANG_THIN" \in l.configs
        kcfi == arch_supports_kcfi(e, "arm64")
        scs == "CONFIG_SHADOW_CALL_STACK" \in l.configs
        cfi_y_config == get_cfi_y_config(e)
        runners ==
            (IF "arch/arm64/configs/virt.config" \in e.linux.files
             THEN <<Arm64Runner(<<Str("virtconfig")>>)>> ELSE <<>>)
            \o <<Arm64Runner(<<Str("defconfig")>>)>>
            \o (IF be
                THEN <<[Arm64Runner(<<Str("defconfig"), Opt("CPU_BIG_ENDIAN", "y")>>)
                            EXCEPT !.boot_arch = "arm64be"]>>
                ELSE <<>>)
            \o (IF lto THEN <<Arm64Runner(<<Str("defconfig"), Opt("LTO_CLANG_THIN", "y")>>)>>
                ELSE <<>>)
            \o (IF kcfi
                THEN (IF "89245600941e4" \in l.commits
                      THEN <<Arm64Runner(<<Str("defconfig"), cfi_y_config,
                                           Opt("SHADOW_CALL_STACK", "y")>>)>>
                      ELSE <<>>)
                     \o <<Arm64Runner(<<Str("defconfig"), cfi_y_config,
                                        Opt("LTO_CLANG_THIN", "y"),
                                        Opt("SHADOW_CALL_STACK", "y")>>)>>
                ELSE IF scs
                THEN <<Arm64Runner(<<Str("defconfig"), Opt("SHADOW_CALL_STACK", "y")>>)>>
                ELSE <<>>)
            \o (IF "kernel/configs/hardening.config" \in e.linux.files
                THEN <<Arm64Runner(<<Str("defconfig"), Frag("hardening.config")>>)>>
                ELSE <<>>)
        s1 == IF be THEN self
              ELSE SkipOne(self, Name("arm64", <<Str("big endian defconfig")>>),
                           Reason("LLVM < 15.0.0 or no big endian support in Linux",
                                  self.llvm_version))
        s2 == IF lto THEN s1
              ELSE SkipOne(s1, Name("arm64", <<Str("LTO builds")>>),
                           Reason("Linux < 5.12.0", l.version))
        s3 == IF kcfi \/ scs THEN s2
              ELSE SkipOne(s2, Name("arm64", <<Str("CFI/SCS builds")>>),
                           Reason("Linux < 5.8.0", l.version))
    IN  [s3 EXCEPT !.runners = @ \o MarkBootable(self, runners)]

Arm64_add_otherconfig_runners(self, l) ==
    [self EXCEPT !.runners =
        @ \o <<Arm64Runner(<<Str("allmodconfig")>> \o
                           (IF "d8e85e144bbe1" \notin l.commits
                            THEN <<Opt("CPU_BIG_ENDIAN", "n")>> ELSE <<>>))>>
          \o (IF "CONFIG_LTO_CLANG_THIN" \in l.configs
              THEN <<Arm64Runner(<<Str("allmodconfig"), Opt("GCOV_KERNEL", "n"),
                                   Opt("KASAN", "n"), Opt("LTO_CLANG_THIN", "y")>>)>>
              ELSE <<>>)
          \o <<Arm64Runner(<<Str("allnoconfig")>>), Arm64Runner(<<Str("tinyconfig")>>)>>]

Arm64_distro_runner(e, l, distro, config_name) ==
    LET fixups == distro = "fedora" /\ VerLT(l.version, <<5, 7, 0>>)
    IN  [Arm64LLVMKernelRunner EXCEPT
            !.bootable = TRUE,
            !.configs = <<PathCfg(distro, config_name)>>
                        \o (IF fixups /\ "STM" \in e.distro_set
                            THEN <<Opt("STM", "y")>> ELSE <<>>)
                        \o (IF fixups /\ "TEST_MEMCAT_P" \in e.distro_set
                            THEN <<Opt("TEST_MEMCAT_P", "n")>> ELSE <<>>)]

Arm64_add_distroconfig_runners(self, e, l) ==
    [self EXCEPT !.runners = @ \o <<Arm64_distro_runner(e, l, "alpine", "aarch64"),
                                    Arm64_distro_runner(e, l, "archlinux", "aarch64"),
                                    Arm64_distro_runner(e, l, "debian", "arm64"),
                                    Arm64_distro_runner(e, l, "fedora", "aarch64"),
                                    Arm64_distro_runner(e, l, "opensuse", "arm64")>>]

Arm64Run(self, e, l) ==
    LET cross_compile == IF e.machine = "aarch64" THEN "" ELSE ARM64_CROSS_COMPILE
        s1 == IF "6f5b41a2f5a63" \notin l.commits /\ cross_compile # ""
              THEN [self EXCEPT !.make_vars = Set(@, "CROSS_COMPILE", cross_compile)] ELSE self
        s2 == IF VerLT(l.version, ARM64_MIN_IAS_LNX_VER)
              THEN [s1 EXCEPT !.make_vars = Set(@, "LLVM_IAS", OFF)] ELSE s1
        s3 == IF "def" \in s2.targets THEN Arm64_add_defconfig_runners(s2, e, l) ELSE s2
        s4 == IF ~s3.only_test_boot /\ "other" \in s3.targets
              THEN Arm64_add_otherconfig_runners(s3, l) ELSE s3
        s5 == IF ~s4.only_test_boot /\ "distro" \in s4.targets
              THEN Arm64_add_distroconfig_runners(s4, e, l) ELSE s4
    IN  Planned(s5, "super", "")

-----------------------------------------------------------------------------
\* lkt/riscv.py

RISCV_CLANG_TARGET == "riscv64-linux-gnu"
RISCV_CROSS_COMPILE == "riscv64-linux-gnu-"
RISCV_QEMU_ARCH == "riscv64"
RISCV_MIN_LNX_VER == <<5, 7, 0>>
RISCV_MIN_LLVM_VER_CFI == <<17, 0, 0>>
RISCV_MIN_LLVM_VER_LTO == <<14, 0, 0>>
RISCV_MIN_LLVM_VER_SCS == <<17, 0, 0>>
RISCV_MIN_IAS_LLVM_VER == <<13, 0, 0>>

RISCVLLVMKernelRunner ==
    [LLVMKernelRunner EXCEPT !.boot_arch = "riscv", !.image_target = "Image",
                             !.qemu_arch = RISCV_QEMU_ARCH]

RISCVLKTRunner(e) == LKTRunner(e, "riscv", RISCV_CLANG_TARGET)

RISCVRunner(configs) == [RISCVLLVMKernelRunner EXCEPT !.configs = configs]

RISCV_has_cfi(self, e) ==
    /\ VerGE(self.llvm_version, RISCV_MIN_LLVM_VER_CFI)
    /\ "arch/riscv/Kconfig:ARCH_SUPPORTS_CFI_CLANG" \in e.linux.files
RISCV_has_lto(self, e) ==
    /\ VerGE(self.llvm_version, RISCV_MIN_LLVM_VER_LTO)
    /\ "arch/riscv/Kconfig:ARCH_SUPPORTS_LTO_CLANG" \in e.linux.files
RISCV_has_scs(self, e) ==
    /\ VerGE(self.llvm_version, RISCV_MIN_LLVM_VER_SCS)
    /\ "arch/riscv/Kconfig:ARCH_SUPPORTS_SHADOW_CALL_STACK" \in e.linux.files

RISCV_add_defconfig_runners(self, e, l) ==
    LET has_cfi == RISCV_has_cfi(self, e)
        has_lto == RISCV_has_lto(self, e)
        has_scs == RISCV_has_scs(self, e)
        base_cfgs == <<Str("defconfig"), Opt("CFI_CLANG", "y"), Opt("SHADOW_CALL_STACK", "y")>>
        runners ==
            <<RISCVRunner(<<Str("defconfig")>> \o
                          (IF VerLT(self.llvm_version, <<13, 0, 0>>)
                              /\ "arch/riscv/Kconfig:config EFI" \in e.linux.files
                           THEN <<Opt("EFI", "n")>> ELSE <<>>))>>
            \o (IF has_lto THEN <<RISCVRunner(<<Str("defconfig"), Opt("LTO_CLANG_THIN", "y")>>)>>
                ELSE <<>>)
            \o (IF has_scs
                THEN <<RISCVRunner(base_cfgs)>>
                     \o (IF has_lto
                         THEN <<RISCVRunner(Append(base_cfgs, Opt("LTO_CLANG_THIN", "y")))>>
                         ELSE <<>>)
                ELSE IF has_cfi
                THEN <<RISCVRunner(<<Str("defconfig"), Opt("CFI_CLANG", "y")>>)>>
                ELSE <<>>)
        s1 == IF has_lto THEN self
              ELSE SkipOne(self, Name("riscv", <<Str("LTO configs")>>),
                           Reason("either LLVM < 14.0.0 or Linux < 6.9.0", self.llvm_version))
        s2 == IF has_scs \/ has_cfi THEN s1
              ELSE SkipOne(s1, Name("riscv", <<Str("CFI/SCS configs")>>),
                           Reason("either LLVM < 17.0.0 or Linux < 6.6.0", self.llvm_version))
    IN  [s2 EXCEPT !.runners = @ \o MarkBootable(self, runners)]

RISCV_add_otherconfig_runners(self, e) ==
    LET s1 == AddRunner(self, RISCVRunner(<<Str("allmodconfig")>>))
    IN  IF \/ ~RISCV_has_lto(self, e)
           \/ VerLE(<<15, 0, 0>>, self.llvm_version) /\ VerLT(self.llvm_version, <<17, 0, 0>>)
        THEN SkipOne(s1, Name("riscv", <<Str("allmodconfig"), Str("ThinLTO")>>),
                     Reason("either LLVM between 15.0.0 and 17.0.0 or Linux < 6.9.0",
                            self.llvm_version))
        ELSE AddRunner(s1, RISCVRunner(<<Str("allmodconfig"), Opt("GCOV_KERNEL", "n"),
                                         Opt("LTO_CLANG_THIN", "y")>>))

RISCV_distro_runner(l, distro) ==
    LET bootable == "f2928e224d85e" \in l.commits
    IN  [RISCVLLVMKernelRunner EXCEPT
            !.bootable = bootable,
            !.result = IF bootable THEN @
                       ELSE Set(@, "boot", Boot("skipped", "due to lack of f2928e224d85e")),
            !.configs = <<PathCfg(distro, "riscv64")>>]

RISCV_add_distroconfig_runners(self, l) ==
    [self EXCEPT !.runners = @ \o <<RISCV_distro_runner(l, "alpine"),
                                    RISCV_distro_runner(l, "opensuse")>>]

\* The part of run() that adds the other and the distribution
\* configurations, or skips both.
RISCV_other_distro(self, e, l) ==
    IF VerGT(l.version, <<5, 8, 0>>) /\ "ec3a5cb61146c" \in l.commits
    THEN LET s1 == IF "other" \in self.targets
                   THEN RISCV_add_otherconfig_runners(self, e) ELSE self
         IN  IF "distro" \in s1.targets THEN RISCV_add_distroconfig_runners(s1, l) ELSE s1
    ELSE SkipOne(self, Name("riscv", <<Str("other and distro configs")>>),
                 Reason("Linux < 5.8.0 or missing ec3a5cb61146c", l.version))

RISCVRun(self, e, l) ==
    IF VerLT(l.version, RISCV_MIN_LNX_VER)
    THEN Planned(SkipAll(self, Reason("missing 52e7c52d2ded, fdff9911f266, and/or abc71bf0a703",
                                      RISCV_MIN_LNX_VER)), "skip", "")
    ELSE
        LET s1 == IF "6f5b41a2f5a63" \notin l.commits
                  THEN [self EXCEPT !.make_vars = Set(@, "CROSS_COMPILE", RISCV_CROSS_COMPILE)]
                  ELSE self
            s2 == IF VerLT(s1.llvm_version, RISCV_MIN_IAS_LLVM_VER)
                  THEN [s1 EXCEPT !.make_vars = Set(@, "LLVM_IAS", OFF)] ELSE s1
            s3 == IF \/ VerLT(s2.llvm_version, <<13, 0, 0>>)
                     \/ "ec3a5cb61146c" \notin l.commits
                     \/ VerLE(l.version, <<5, 10, 999>>)
                  THEN [s2 EXCEPT !.make_vars = Set(@, "LD", <<RISCV_CROSS_COMPILE, "ld">>)]
                  ELSE s2
            s4 == IF "def" \in s3.targets THEN RISCV_add_defconfig_runners(s3, e, l) ELSE s3
            s5 == IF ~s4.only_test_boot THEN RISCV_other_distro(s4, e, l) ELSE s4
        IN  Planned(s5, "super", "")

-----------------------------------------------------------------------------
\* lkt/x86_64.py

X86_64_CLANG_TARGET == "x86_64-linux-gnu"
X86_64_CROSS_COMPILE == "x86_64-linux-gnu-"
X86_64_QEMU_ARCH == "x86_64"
X86_64_MIN_LLVM_VER_CFI == <<16, 0, 0>>
X86_64_MIN_IAS_LNX_VER == <<5, 10, 0>>

X8664LLVMKernelRunner ==
    [LLVMKernelRunner EXCEPT !.boot_arch = "x86_64", !.image_target = "bzImage",
                             !.qemu_arch = X86_64_QEMU_ARCH]

X8664LKTRunner(e) == LKTRunner(e, "x86_64", X86_64_CLANG_TARGET)

X8664Runner(configs) == [X8664LLVMKernelRunner EXCEPT !.configs = configs]

X8664_add_defconfig_runners(self, e, l) ==
    LET lto == "CONFIG_LTO_CLANG_THIN" \in l.configs
        cfi == VerGE(self.llvm_version, X86_64_MIN_LLVM_VER_CFI) /\ "89245600941e4" \in l.commits
        cfi_y_config == get_cfi_y_config(e)
        runners ==
            <<X8664Runner(<<Str("defconfig")>>)>>
            \o (IF lto THEN <<X8664Runner(<<Str("defconfig"), Opt("LTO_CLANG_THIN", "y")>>)>>
                ELSE <<>>)
            \o (IF cfi
                THEN <<X8664Runner(<<Str("defconfig"), cfi_y_config>>),
                       X8664Runner(<<Str("defconfig"), cfi_y_config, Opt("LTO_CLANG_THIN", "y")>>)>>
                ELSE <<>>)
            \o (IF "kernel/configs/hardening.config" \in e.linux.files
                THEN <<X8664Runner(<<Str("defconfig"), Frag("hardening.config")>>)>>
                ELSE <<>>)
        s1 == IF lto THEN self
              ELSE SkipOne(self, Name("x86_64", <<Str("LTO builds")>>),
                           Reason("Linux < 5.12.0", l.version))
        s2 == IF cfi THEN s1
              ELSE SkipOne(s1, Name("x86_64", <<Str("CFI configs")>>),
                           Reason("either LLVM < 16.0.0 or Linux < 6.1.0", self.llvm_version))
    IN  [s2 EXCEPT !.runners = @ \o MarkBootable(self, runners)]

X8664_add_otherconfig_runners(self, l) ==
    [self EXCEPT !.runners =
        @ \o <<X8664Runner(<<Str("allmodconfig")>> \o
                           (IF VerLT(l.version, <<5, 7, 0>>)
                            THEN <<Opt("STM", "n"), Opt("TEST_MEMCAT_P", "n")>> ELSE <<>>))>>
          \o (IF "CONFIG_LTO_CLANG_THIN" \in l.configs
              THEN <<X8664Runner(<<Str("allmodconfig"), Opt("GCOV_KERNEL", "n"),
                                   Opt("KASAN", "n"), Opt("LTO_CLANG_THIN", "y")>>)>>
              ELSE <<>>)]

X8664_distro_runner(self, e, l, distro, config_name) ==
    LET has_x32 == "X86_X32_ABI" \in e.distro_set
        needs_gnu_objcopy == "aaeed6ecc1253" \notin l.commits
        old == VerLT(l.version, <<5, 7, 0>>)
    IN  [X8664LLVMKernelRunner EXCEPT
            !.bootable = TRUE,
            !.configs = <<PathCfg(distro, config_name)>>
                        \o (IF old /\ "STM" \in e.distro_set THEN <<Opt("STM", "n")>> ELSE <<>>)
                        \o (IF old /\ "TEST_MEMCAT_P" \in e.distro_set
                            THEN <<Opt("TEST_MEMCAT_P", "n")>> ELSE <<>>),
            !.make_vars = IF has_x32 /\ needs_gnu_objcopy
                          THEN Set(@, "OBJCOPY",
                                   <<Get(self.make_vars, "CROSS_COMPILE", ""), "objcopy">>)
                          ELSE @]

X8664_add_distroconfig_runners(self, e, l) ==
    [self EXCEPT !.runners = @ \o <<X8664_distro_runner(self, e, l, "alpine", "x86_64"),
                                    X8664_distro_runner(self, e, l, "archlinux", "x86_64"),
                                    X8664_distro_runner(self, e, l, "debian", "amd64"),
                                    X8664_distro_runner(self, e, l, "fedora", "x86_64"),
                                    X8664_distro_runner(self, e, l, "opensuse", "x86_64")>>]

X8664Run(self, e, l) ==
    IF e.machine # "x86_64" /\ "d5cbd80e302df" \notin l.commits
    THEN Planned(SkipAll(self, Reason("missing d5cbd80e302d on a non-x86_64 host", <<5, 13, 0>>)),
                 "skip", "")
    ELSE
        LET cross_compile == IF e.machine # "x86_64" THEN X86_64_CROSS_COMPILE ELSE ""
            s1 == IF "6f5b41a2f5a63" \notin l.commits /\ cross_compile # ""
                  THEN [self EXCEPT !.make_vars = Set(@, "CROSS_COMPILE", cross_compile)]
                  ELSE self
            s2 == IF VerLT(l.version, X86_64_MIN_IAS_LNX_VER)
                  THEN [s1 EXCEPT !.make_vars = Set(@, "LLVM_IAS", OFF)] ELSE s1
            s3 == IF "def" \in s2.targets THEN X8664_add_defconfig_runners(s2, e, l) ELSE s2
            s4 == IF ~s3.only_test_boot /\ "other" \in s3.targets
                  THEN X8664_add_otherconfig_runners(s3, l) ELSE s3
            s5 == IF ~s4.only_test_boot /\ "distro" \in s4.targets
                  THEN X8664_add_distroconfig_runners(s4, e, l) ELSE s4
        IN  Planned(s5, "super", "")

-----------------------------------------------------------------------------
\* lkt/mips.py

MIPS_CLANG_TARGET == "mips-linux-gnu"
MIPS_MIN_IAS_LNX_VER == <<5, 15, 0>>

MipsLLVMKernelRunner ==
    [LLVMKernelRunner EXCEPT !.boot_arch = "mipsel", !.image_target = "vmlinux",
                             !.qemu_arch = "mipsel"]

\* The last prefix of the list whose '<prefix>as' is in PATH: the loop of
\* the constructor does not stop at the first one. "" when there is none.
RECURSIVE LastWithAs(_, _)
LastWithAs(e, prefixes) ==
    IF prefixes = <<>> THEN ""
    ELSE IF Which(e, <<prefixes[Len(prefixes)], "as">>) THEN prefixes[Len(prefixes)]
    ELSE LastWithAs(e, SubSeq(prefixes, 1, Len(prefixes) - 1))

\* self._cross_compile only exists when some assembler was found.
MipsLKTRunner(e) ==
    LET found == LastWithAs(e, <<"mips64-linux-gnu-", "mips-linux-gnu-", "mipsel-linux-gnu-">>)
    IN  [LKTRunner(e, "mips", MIPS_CLANG_TARGET) EXCEPT
            !.cross_compile = found,
            !.has_cross_compile = found # ""]

Mips_be_vars(self, l) ==
    IF "e91946d6d93ef" \in l.commits /\ VerLT(self.llvm_version, <<13, 0, 0>>)
    THEN "LD" :> <<self.cross_compile, "ld">> ELSE EmptyDict

Mips_generic_runner(self, l, generic_cfg, r1, el) ==
    LET mv1 == IF r1 THEN Set(MipsLLVMKernelRunner.make_vars, "CROSS_COMPILE", self.cross_compile)
               ELSE MipsLLVMKernelRunner.make_vars
    IN  [MipsLLVMKernelRunner EXCEPT
            !.make_vars = IF ~el THEN Update(mv1, Mips_be_vars(self, l)) ELSE mv1,
            !.override_make_vars = IF r1 THEN Set(@, "LLVM_IAS", OFF) ELSE @,
            !.configs = <<Str(generic_cfg)>>]

Mips_add_defconfig_runners(self, l) ==
    LET extra_configs == IF "c47c7ab9b5363" \notin l.commits
                         THEN <<Opt("BLK_DEV_INITRD", "y")>> ELSE <<>>
        runners ==
            <<[MipsLLVMKernelRunner EXCEPT !.configs = <<Str("malta_defconfig")>> \o extra_configs],
              [MipsLLVMKernelRunner EXCEPT
                 !.configs = <<Str("malta_defconfig"), Opt("RELOCATABLE", "y"),
                               Opt("RELOCATION_TABLE_SIZE", "0x00200000"),
                               Opt("RANDOMIZE_BASE", "y")>> \o extra_configs],
              [MipsLLVMKernelRunner EXCEPT
                 !.boot_arch = "mips",
                 !.configs = <<Str("malta_defconfig"), Opt("CPU_BIG_ENDIAN", "y")>>
                             \o extra_configs,
                 !.make_vars = Update(@, Mips_be_vars(self, l)),
                 !.qemu_arch = "mips"]>>
        s1 == [self EXCEPT !.runners = @ \o MarkBootable(self, runners)]
        generic == <<Mips_generic_runner(self, l, "32r1_defconfig", TRUE, FALSE),
                     Mips_generic_runner(self, l, "32r1el_defconfig", TRUE, TRUE),
                     Mips_generic_runner(self, l, "32r2_defconfig", FALSE, FALSE),
                     Mips_generic_runner(self, l, "32r2el_defconfig", FALSE, TRUE)>>
                   \o (IF VerGE(self.llvm_version, <<12, 0, 0>>)
                       THEN <<Mips_generic_runner(self, l, "32r6_defconfig", FALSE, FALSE),
                              Mips_generic_runner(self, l, "32r6el_defconfig", FALSE, TRUE)>>
                       ELSE <<>>)
    IN  IF self.only_test_boot THEN s1 ELSE [s1 EXCEPT !.runners = @ \o generic]

Mips_add_otherconfig_runners(self, l) ==
    [self EXCEPT !.runners =
        @ \o <<[MipsLLVMKernelRunner EXCEPT !.configs = <<Str("allnoconfig")>>,
                                            !.make_vars = Update(@, Mips_be_vars(self, l))],
               [MipsLLVMKernelRunner EXCEPT !.configs = <<Str("tinyconfig")>>,
                                            !.make_vars = Update(@, Mips_be_vars(self, l))]>>]

\* run() reads self._cross_compile for old kernels, for the big endian
\* linker and for the 32r1 configurations: an AttributeError without it.
MipsRun(self, e, l) ==
    LET old == VerLT(l.version, MIPS_MIN_IAS_LNX_VER)
        reads_cross_compile ==
            \/ old
            \/ "e91946d6d93ef" \in l.commits /\ VerLT(self.llvm_version, <<13, 0, 0>>)
            \/ "def" \in self.targets /\ ~self.only_test_boot
        s1 == IF old
              THEN [self EXCEPT !.make_vars =
                        Update(@, "CROSS_COMPILE" :> self.cross_compile @@ "LLVM_IAS" :> OFF)]
              ELSE self
        s2 == IF "def" \in s1.targets THEN Mips_add_defconfig_runners(s1, l) ELSE s1
        s3 == IF ~s2.only_test_boot /\ "other" \in s2.targets
              THEN Mips_add_otherconfig_runners(s2, l) ELSE s2
    IN  IF reads_cross_compile /\ ~self.has_cross_compile
        THEN Planned(self, "raise", "AttributeError")
        ELSE Planned(s3, "super", "")

-----------------------------------------------------------------------------
\* lkt/loongarch.py

LOONGARCH_CLANG_TARGET == "loongarch64-linux-gnusf"
LOONGARCH_QEMU_ARCH == "loongarch64"
LOONGARCH_MIN_LNX_VER == <<6, 5, 0>>
LOONGARCH_HARD_MIN_LLVM_VER == <<17, 0, 0>>
LOONGARCH_MIN_QEMU_VER == <<8, 0, 0>>

LoongArchLLVMKernelRunner ==
    [LLVMKernelRunner EXCEPT !.boot_arch = "loongarch", !.image_target = "vmlinuz.efi",
                             !.qemu_arch = LOONGARCH_QEMU_ARCH]

LoongArchLKTRunner(e) ==
    [LKTRunner(e, "loongarch", LOONGARCH_CLANG_TARGET) EXCEPT
        !.qemu_version = QemuVersion(e, LOONGARCH_QEMU_ARCH)]

\* self._broken_configs as run() fills it in.
LoongArch_broken_configs(e) ==
    (IF "arch/loongarch/Makefile:--apply-dynamic-relocs" \notin e.linux.files
     THEN <<Opt("CRASH_DUMP", "n"), Opt("RELOCATABLE", "n")>> ELSE <<>>)
    \o (IF "clang:loongarch model(extreme)" \notin e.tools
        THEN <<Opt("MODULES", "n")>> ELSE <<>>)

LoongArch_add_defconfig_runners(self, e) ==
    LET broken_configs == LoongArch_broken_configs(e)
        runner == [LoongArchLLVMKernelRunner EXCEPT
                     !.bootable = TRUE,
                     !.configs = <<Str("defconfig")>> \o broken_configs,
                     !.only_test_boot = self.only_test_boot]
    IN  [self EXCEPT !.runners =
            @ \o <<runner, [runner EXCEPT !.configs = Append(@, Opt("LTO_CLANG_THIN", "y"))]>>]

LoongArch_add_otherconfig_runners(self, e, l) ==
    LET broken_configs == LoongArch_broken_configs(e)
        allyes == InSeq(Opt("MODULES", "n"), broken_configs)
        c1 == <<Str(IF allyes THEN "allyesconfig" ELSE "allmodconfig")>> \o broken_configs
        c2 == IF "2363088eba2ec" \in l.commits /\ allyes THEN Append(c1, Opt("KCOV", "n")) ELSE c1
        base_all_cfgs == IF "CONFIG_WERROR" \in l.configs
                         THEN Append(c2, Opt("WERROR", "n")) ELSE c2
    IN  [self EXCEPT !.runners =
            @ \o <<[LoongArchLLVMKernelRunner EXCEPT !.configs = base_all_cfgs],
                   [LoongArchLLVMKernelRunner EXCEPT
                      !.configs = base_all_cfgs \o <<Opt("FTRACE", "n"), Opt("GCOV_KERNEL", "n"),
                                                     Opt("LTO_CLANG_THIN", "y")>>]>>]

LoongArchRun(self, e, l) ==
    LET min_ver == min_llvm_ver(GetMinLlvmVer(e, "loongarch"), LOONGARCH_HARD_MIN_LLVM_VER)
    IN
    IF VerLT(self.llvm_version, min_ver)
    THEN Planned(SkipAll(self, Reason("LLVM <", min_ver)), "skip", "")
    ELSE IF "65eea6b44a5dd" \notin l.commits
    THEN Planned(SkipAll(self, Reason("missing 65eea6b44a5dd", LOONGARCH_MIN_LNX_VER)), "skip", "")
    ELSE
        LET s1 == IF "def" \in self.targets THEN LoongArch_add_defconfig_runners(self, e) ELSE self
            s2 == IF ~s1.only_test_boot /\ "other" \in s1.targets
                  THEN LoongArch_add_otherconfig_runners(s1, e, l) ELSE s1
        IN  Planned(QemuTooOld(s2, LOONGARCH_MIN_QEMU_VER), "super", "")

-----------------------------------------------------------------------------
\* lkt/runner.py: LLVMKernelRunner.run, _build_kernel, _boot_kernel

\* The symbols of compat_changes, in order.
compat_changes ==
    <<"ACPI_HED", "ARM_TEGRA124_CPUFREQ", "ARM_SCMI_TRANSPORT_OPTEE", "BCM7120_L2_IRQ",
      "CHARGER_MANAGER", "CHELSIO_IPSEC_INLINE", "COMMON_CLK_MT2712",
      "COMMON_CLK_MT2712_BDPSYS", "COMMON_CLK_MT2712_IMGSYS",
      "COMMON_CLK_MT2712_JPGDECSYS", "COMMON_CLK_MT2712_MFGCFG", "COMMON_CLK_MT2712_MMSYS",
      "COMMON_CLK_MT2712_VDECSYS", "COMMON_CLK_MT2712_VENCSYS",
      "COMMON_CLK_MT6765_AUDIOSYS", "COMMON_CLK_MT6765_CAMSYS", "COMMON_CLK_MT6765_GCESYS",
      "COMMON_CLK_MT6765_MMSYS", "COMMON_CLK_MT6765_IMGSYS", "COMMON_CLK_MT6765_VCODECSYS",
      "COMMON_CLK_MT6765_MFGSYS", "COMMON_CLK_MT6765_MIPI0ASYS",
      "COMMON_CLK_MT6765_MIPI0BSYS", "COMMON_CLK_MT6765_MIPI1ASYS",
      "COMMON_CLK_MT6765_MIPI1BSYS", "COMMON_CLK_MT6765_MIPI2ASYS",
      "COMMON_CLK_MT6765_MIPI2BSYS", "COMMON_CLK_MT6779", "COMMON_CLK_MT6779_AUDSYS",
      "COMMON_CLK_MT6779_CAMSYS", "COMMON_CLK_MT6779_IMGSYS", "COMMON_CLK_MT6779_IPESYS",
      "COMMON_CLK_MT6779_MFGCFG", "COMMON_CLK_MT6779_MMSYS", "COMMON_CLK_MT6779_VDECSYS",
      "COMMON_CLK_MT6779_VENCSYS", "COMMON_CLK_MT6797_MMSYS", "COMMON_CLK_MT6797_IMGSYS",
      "COMMON_CLK_MT6797_VDECSYS", "COMMON_CLK_MT6797_VENCSYS", "COMMON_CLK_MT7622",
      "COMMON_CLK_MT7622_ETHSYS", "COMMON_CLK_MT7622_HIFSYS", "COMMON_CLK_MT7622_AUDSYS",
      "COMMON_CLK_MT7986", "COMMON_CLK_MT7986_ETHSYS", "COMMON_CLK_MT8167",
      "COMMON_CLK_MT8167_AUDSYS", "COMMON_CLK_MT8167_IMGSYS", "COMMON_CLK_MT8167_MFGCFG",
      "COMMON_CLK_MT8167_MMSYS", "COMMON_CLK_MT8167_VDECSYS", "COMMON_CLK_MT8173",
      "COMMON_CLK_MT8173_MMSYS", "COMMON_CLK_MT8183", "COMMON_CLK_MT8183_AUDIOSYS",
      "COMMON_CLK_MT8183_CAMSYS", "COMMON_CLK_MT8183_IMGSYS",
      "COMMON_CLK_MT8183_IPU_CORE0", "COMMON_CLK_MT8183_IPU_CORE1",
      "COMMON_CLK_MT8183_IPU_ADL", "COMMON_CLK_MT8183_IPU_CONN",
      "COMMON_CLK_MT8183_MFGCFG", "COMMON_CLK_MT8183_MMSYS", "COMMON_CLK_MT8183_VDECSYS",
      "COMMON_CLK_MT8183_VENCSYS", "COMMON_CLK_MT8186", "COMMON_CLK_MT8192",
      "COMMON_CLK_MT8192_AUDSYS", "COMMON_CLK_MT8192_CAMSYS", "COMMON_CLK_MT8192_IMGSYS",
      "COMMON_CLK_MT8192_IMP_IIC_WRAP", "COMMON_CLK_MT8192_IPESYS",
      "COMMON_CLK_MT8192_MDPSYS", "COMMON_CLK_MT8192_MFGCFG", "COMMON_CLK_MT8192_MMSYS",
      "COMMON_CLK_MT8192_MSDC", "COMMON_CLK_MT8192_SCP_ADSP", "COMMON_CLK_MT8192_VDECSYS",
      "COMMON_CLK_MT8192_VENCSYS", "COMMON_CLK_MT8516", "COMMON_CLK_MT8516_AUDSYS",
      "CORESIGHT", "CORESIGHT_LINKS_AND_SINKS", "CORESIGHT_LINK_AND_SINK_TMC",
      "CORESIGHT_CATU", "CORESIGHT_SINK_TPIU", "CORESIGHT_SINK_ETBV10",
      "CORESIGHT_SOURCE_ETM3X", "CORESIGHT_SOURCE_ETM4X", "CORESIGHT_STM",
      "CPUFREQ_DT_PLATDEV", "CROS_EC_PROTO", "CRYPTO_ARCH_HAVE_LIB_CHACHA",
      "CRYPTO_ARCH_HAVE_LIB_CURVE25519", "CRYPTO_ARCH_HAVE_LIB_POLY1305",
      "CS89x0_PLATFORM", "DIMLIB", "DRIVER_PE_KUNIT_TEST", "DRM_CLIENT_SELECTION",
      "DRM_GEM_CMA_HELPER", "DRM_GEM_SHMEM_HELPER", "FB_BACKLIGHT", "FSCACHE",
      "TEST_MISC_MINOR", "GPIO_DAVINCI", "GPIO_MXC", "GPIO_PL061", "GPIO_TPS68470",
      "HAVE_KVM_IRQ_BYPASS", "IMX_DSP", "INFINIBAND_HNS_HIP08", "KPROBES_SANITY_TEST",
      "MFD_PALMAS", "MTK_IOMMU", "MTK_MMSYS", "MTK_SMI", "NET_9P_USBG",
      "NET_DSA_REALTEK_MDIO", "NET_DSA_REALTEK_SMI", "NVME_AUTH", "NVMEM_ZYNQMP",
      "PCI_DRA7XX", "PCI_DRA7XX_EP", "PCI_DRA7XX_HOST", "PCI_EXYNOS", "PCI_MESON",
      "PCI_MVEBU", "PINCTRL_ROCKCHIP", "PINCTRL_SPACEMIT_K1", "POWER_RESET_SC27XX",
      "PROC_THERMAL_MMIO_RAPL", "PWM_CRC", "QCOM_IPCC", "QCOM_RPMPD", "QCOM_RPMHPD",
      "RADIO_ADAPTERS", "RATIONAL", "RESET_IMX7", "RESET_MESON", "RTW88_8822BE",
      "RTW88_8822CE", "SERIAL_SC16IS7XX_I2C", "SERIAL_SC16IS7XX_SPI", "SERIAL_LANTIQ",
      "SND_SOC_SOF_DEBUG_PROBES", "SND_SOC_SOF_HDA_PROBES", "SND_SOC_SPRD_MCDT",
      "SUNXI_CCU", "SUN8I_DE2_CCU", "SYSCTL_KUNIT_TEST", "TEGRA124_EMC", "TEGRA20_EMC",
      "TEGRA30_EMC", "TI_CPTS", "TI_K3_PSIL", "TI_K3_RINGACC", "TI_K3_UDMA",
      "TI_K3_UDMA_GLUE_LAYER", "TI_SCI_INTA_IRQCHIP", "TI_SCI_INTR_IRQCHIP", "UNICODE",
      "VFIO_VIRQFD", "VIRTIO_IOMMU", "XEN_PVCALLS_BACKEND">>

\* LLVMKernelRunner._initial_distro_prep: the options appended to
\* self.configs for the distribution configuration self.configs[0].
InitialDistroPrep(configs, e, l) ==
    LET config == configs[1]
        distro == config.v
        set(sym) == sym \in e.distro_set
    IN  (IF set("DEBUG_INFO_BTF")
            /\ ~(Which(e, <<"", "pahole">>) /\ VerGE(l.version, <<5, 7, 0>>))
         THEN <<Opt("DEBUG_INFO_BTF", "n")>> ELSE <<>>)
        \o (IF "e96f2d64c812d" \notin l.commits /\ "CONFIG_BPF_PRELOAD" \in l.configs
               /\ set("BPF_PRELOAD")
            THEN <<Opt("BPF_PRELOAD", "n")>> ELSE <<>>)
        \o (IF distro = "archlinux" /\ set("EXTRA_FIRMWARE")
            THEN <<Opt("EXTRA_FIRMWARE", "\"\"")>> ELSE <<>>)
        \o (IF distro = "debian" /\ set("SYSTEM_TRUSTED_KEYS")
            THEN <<Opt("SYSTEM_TRUSTED_KEYS", "n")>> ELSE <<>>)
        \o (IF config.s \in {"aarch64", "arm64"} /\ set("EFI_ZBOOT")
            THEN <<Opt("EFI_ZBOOT", "n")>> ELSE <<>>)

\* The loop over compat_changes of _distro_adjustments: a symbol that is
\* 'm' in the configuration but cannot be a module in the tree becomes 'y'.
CompatAdjust(syms, e) ==
    LET hit == SelectSeq(syms, LAMBDA sym : sym \in e.distro_modular /\ sym \notin e.linux.tristate)
        opts == [i \in 1..Len(hit) |-> Opt(hit[i], "y")]
        at == {i \in 1..Len(hit) : hit[i] = "CS89x0_PLATFORM"}
    IN  IF at = {} THEN opts
        ELSE LET k == CHOOSE i \in at : TRUE
             IN  SubSeq(opts, 1, k) \o <<Opt("CS89x0", "y")>> \o SubSeq(opts, k + 1, Len(opts))

\* LLVMKernelRunner._distro_adjustments
DistroAdjustments(configs, e) ==
    LET config == configs[1]
        distro == config.v
        modular(sym) == sym \in e.distro_modular
        check_cfg == IF "lib/Kconfig.ubsan:UBSAN_INTEGER_WRAP" \in e.linux.files
                     THEN "UBSAN_SIGNED_WRAP" ELSE "UBSAN_INTEGER_WRAP"
    IN  (IF distro = "alpine"
         THEN <<Opt("UNIX", "y"), Opt("INET", "y"),
                Opt("BPF_UNPRIV_DEFAULT_OFF", "y")>>
         ELSE <<>>)
        \o (IF distro = "debian" /\ modular("ANDROID_BINDER_IPC")
            THEN <<Opt("ANDROID_BINDER_IPC", "y")>> ELSE <<>>)
        \o (IF distro = "debian" /\ modular("ASHMEM")
            THEN <<Opt("ASHMEM", "y")>> ELSE <<>>)
        \o (IF config.s \in {"ppc64le", "powerpc64le"}
            THEN <<Opt("ARCH_FORCE_MAX_ORDER",
                       IF "arch/powerpc/Kconfig:max_order_8" \in e.linux.files THEN "8" ELSE "9")>>
            ELSE <<>>)
        \o CompatAdjust(compat_changes, e)
        \o (IF modular("MFD_ARIZONA") /\ "drivers/mfd/Makefile:arizona-objs" \notin e.linux.files
            THEN <<Opt("MFD_ARIZONA", "y")>> ELSE <<>>)
        \o (IF "init/Kconfig:BASE_SMALL_int" \in e.linux.files /\ e.distro_base_small = "n"
            THEN <<Opt("BASE_SMALL", "0")>> ELSE <<>>)
        \o (IF "init/Kconfig:BASE_SMALL_bool" \in e.linux.files /\ e.distro_base_small = "0"
            THEN <<Opt("BASE_SMALL", "n")>> ELSE <<>>)
        \o (IF check_cfg \notin e.distro_set
            THEN <<Opt(IF check_cfg = "UBSAN_SIGNED_WRAP"
                       THEN "UBSAN_INTEGER_WRAP" ELSE "UBSAN_SIGNED_WRAP", "n")>>
            ELSE <<>>)

\* The variant's own make variables win over the architecture's.
VariantOverArch(own, arch_level) == Update(arch_level, own)

\* runner.make_vars.update(self.make_vars) in the loop of LKTRunner.run
ArchOverVariant(own, arch_level) == Update(own, arch_level)

\* LLVMKernelRunner.run up to the call of _build_kernel, after the loop of
\* LKTRunner.run has laid the architecture's make variables over the
\* variant's: the configurations to build and result['name'].
RunnerPrepare(runner, self, e, l) ==
    LET mv == ArchOverVariant(runner.make_vars, self.make_vars)
        c0 == runner.configs
        c1 == IF InSeq(Str("allmodconfig"), c0) /\ "CONFIG_WERROR" \in l.configs
              THEN Append(c0, Opt("WERROR", "n")) ELSE c0
        c2 == IF InSeq(Opt("WERROR", "n"), c1) /\ "CONFIG_DRM_WERROR" \in l.configs
              THEN Append(c1, Opt("DRM_WERROR", "n")) ELSE c1
        c3 == IF c2[1].t = "path" THEN c2 \o InitialDistroPrep(c2, e, l) ELSE c2
        configs == IF c3[1].t = "path"
                   THEN <<DistroConfigName(c3[1].v)>> \o Tail(c3) ELSE c3
    IN  [runner EXCEPT !.make_vars = mv,
                       !.configs = c3,
                       !.result = Set(@, "name", Name(mv["ARCH"], configs))]

\* Path(self.folders.build), relative to the source folder: build/<ARCH>.
BuildFolder(arch) == <<"build", arch>>

\* The build folder is left as it is found.
KeepBuildFolder(folders, arch) == folders

\* if self.folders.build.exists(): shutil.rmtree(self.folders.build)
CleanBuildFolder(folders, arch) == folders \ {arch}

\* What make (and mkdir(parents=True)) leave behind: the output folder.
CreateBuildFolder(folders, arch) == folders \cup {arch}

\* LLVM_IAS is always passed on.
KeepIAS(make_vars, e) == make_vars

\* Remove LLVM_IAS if the value is the default of the tree.
DropDefaultIAS(make_vars, e) ==
    LET llvm_ias == make_vars["LLVM_IAS"]
        llvm_ias_def_on == /\ "scripts/Makefile.clang" \in e.linux.files
                           /\ "scripts/Makefile.clang:ifeq ($(LLVM_IAS),0)" \in e.linux.files
    IN  IF (llvm_ias_def_on /\ llvm_ias = ON) \/ (~llvm_ias_def_on /\ llvm_ias = OFF)
        THEN Del(make_vars, "LLVM_IAS") ELSE make_vars

\* Kconfig choices: the default choice is disabled when another is requested.
ChoiceComplements(extra_configs) ==
    (IF InSeq(Opt("LTO_CLANG_THIN", "y"), extra_configs)
     THEN <<Opt("LTO_NONE", "n")>> ELSE <<>>)
    \o (IF InSeq(Opt("CPU_BIG_ENDIAN", "y"), extra_configs)
        THEN <<Opt("CPU_LITTLE_ENDIAN", "n")>> ELSE <<>>)
    \o (IF InSeq(Opt("CPU_LITTLE_ENDIAN", "y"), extra_configs)
        THEN <<Opt("CPU_BIG_ENDIAN", "n")>> ELSE <<>>)

IsFragment(item) == item.t = "fragment"
IsOption(item) == item.t = "option"

\* Everything is built whatever was asked for.
AlwaysAll(runner) == "all"

\* The image target under only_test_boot, 'all' otherwise.
BuildTarget(runner) == IF runner.only_test_boot THEN runner.image_target ELSE "all"

\* LLVMKernelRunner._build_kernel up to the final make: the exception the
\* configuration handling raises (exc), whether a preliminary make and
\* merge_config.sh run before the final make, and the final make command
\* (its variables and its targets).
BuildPlan(runner, e) ==
    LET mv1 == Update(runner.make_vars, runner.override_make_vars)
        mv2 == Set(mv1, "O", BuildFolder(mv1["ARCH"]))
        make_vars == DropDefaultIAS(mv2, e)
        base_config == runner.configs[1]
        rest == Tail(runner.configs)
        requested_fragments == SelectSeq(rest, IsFragment)
        requested_options == SelectSeq(rest, IsOption)
        unhandled == \E i \in 1..Len(rest) : ~IsFragment(rest[i]) /\ ~IsOption(rest[i])
        is_path == base_config.t = "path"
        premake == ~is_path /\ requested_options # <<>>
        extra_configs == IF is_path
                         THEN requested_options \o DistroAdjustments(runner.configs, e)
                         ELSE requested_options
        merge == extra_configs # <<>>
        need_olddefconfig == is_path \/ merge
    IN  [exc |-> IF unhandled THEN "ValueError"
                 ELSE IF is_path /\ requested_fragments # <<>> THEN "RuntimeError"
                 ELSE "",
         premake |-> premake,
         merge |-> merge,
         merged |-> IF merge THEN extra_configs \o ChoiceComplements(extra_configs) ELSE <<>>,
         need_olddefconfig |-> need_olddefconfig,
         requested_options |-> requested_options,
         make_vars |-> make_vars,
         targets |-> (IF ~is_path /\ ~premake
                      THEN <<base_config>> \o requested_fragments ELSE <<>>)
                     \o (IF need_olddefconfig THEN <<Str("olddefconfig")>> ELSE <<>>)
                     \o <<Str(BuildTarget(runner))>>
                     \o [i \in 1..Len(runner.make_targets) |-> Str(runner.make_targets[i])]]

\* The line '# CONFIG_<name> is not set' of a .config; the line
\* 'CONFIG_<name>=<value>' is Opt(name, value).
NotSet(cfg_name) == [t |-> "unset", s |-> cfg_name, v |-> ""]

\* What olddefconfig may make of an option written for merge_config.sh:
\* "kept" as asked for ('=n' becomes the 'is not set' line), "absent" (the
\* symbol is not visible), "unset", or "changed" to another value.
KconfigKinds == {"absent", "unset", "changed"}
ConfigLine(item, kind) ==
    CASE kind = "kept" -> IF item.v = "n" THEN {NotSet(item.s)} ELSE {item}
      [] kind = "absent" -> {}
      [] kind = "unset" -> {NotSet(item.s)}
      [] OTHER -> {Opt(item.s, IF item.v = "y" THEN "m" ELSE "y")}

\* The ways in which olddefconfig does not keep at most n of the options.
KconfigChanges(merged, n) ==
    IF n <= 0 \/ merged = <<>> THEN {[i \in {} |-> "kept"]}
    ELSE UNION {[D -> KconfigKinds] :
                    D \in {S \in SUBSET (1..Len(merged)) : Cardinality(S) <= n}}

\* The lines of the final .config that are about the merged options, the
\* last of several options on one symbol being the one that counts.
FinalConfig(merged, changed) ==
    UNION {ConfigLine(merged[i], IF i \in DOMAIN changed THEN changed[i] ELSE "kept") :
              i \in {k \in 1..Len(merged) :
                        \A j \in (k + 1)..Len(merged) : merged[j].s # merged[k].s}}

\* re.search(f"^{search}$", config_text, flags=re.M): a line that is search.
\* No option of the planners has a character that is special in a regular
\* expression.
HasLine(config_text, search) == search \in config_text

\* re.search(f"^{cfg_name}=", config_text, flags=re.M)
HasAssignment(config_text, cfg_name) ==
    \E line \in config_text : line.t = "option" /\ line.s = cfg_name

\* A check that takes every '=n' without its 'is not set' line for missing.
MissingConfigsStrict(requested_options, config_text) ==
    SelectSeq(requested_options,
              LAMBDA item : ~HasLine(config_text,
                                     IF item.v = "n" THEN NotSet(item.s) ELSE item))

\* Make sure requested configurations are their expected value: the
\* missing_configs of _build_kernel.
MissingConfigs(requested_options, config_text) ==
    SelectSeq(requested_options,
              LAMBDA item :
                /\ ~HasLine(config_text, IF item.v = "n" THEN NotSet(item.s) ELSE item)
                /\ (item.v # "n" \/ HasAssignment(config_text, item.s)))

\* The exit code of make is not looked at.
BuildStatusIgnoringExitCode(returncode) == "successful"

\* self.result['build'] = 'successful' if proc.returncode == 0 else 'failed'
BuildStatus(returncode) == IF returncode = 0 THEN "successful" ELSE "failed"

\* _boot_kernel without the check of the build result.
BootPlanIgnoringBuild(runner, e) ==
    IF ~runner.bootable THEN [do |-> "return", boot |-> Boot("", ""), exc |-> ""]
    ELSE IF runner.boot_arch = "" \/ runner.qemu_arch = ""
    THEN [do |-> "raise", boot |-> Boot("", ""), exc |-> "RuntimeError"]
    ELSE IF ~Which(e, <<"qemu-system-", runner.qemu_arch>>)
    THEN [do |-> "skip", boot |-> Boot("skipped", "due to missing qemu-system"), exc |-> ""]
    ELSE IF e.boot_utils # "ok"
    THEN [do |-> "raise", boot |-> Boot("", ""), exc |-> "RuntimeError"]
    ELSE [do |-> "wrapper", boot |-> Boot("", ""), exc |-> ""]

\* LLVMKernelRunner._boot_kernel up to the call of boot-qemu.py: what is
\* decided without running the wrapper. "return": no boot test and no boot
\* result; "skip": result['boot'] is set to boot; "raise": the exception
\* exc; "wrapper": boot-qemu.py is run.
BootPlan(runner, e) ==
    IF ~runner.bootable THEN [do |-> "return", boot |-> Boot("", ""), exc |-> ""]
    ELSE IF runner.result["build"] = "failed"
    THEN [do |-> "skip", boot |-> Boot("skipped", ""), exc |-> ""]
    ELSE IF runner.boot_arch = "" \/ runner.qemu_arch = ""
    THEN [do |-> "raise", boot |-> Boot("", ""), exc |-> "RuntimeError"]
    ELSE IF ~Which(e, <<"qemu-system-", runner.qemu_arch>>)
    THEN [do |-> "skip", boot |-> Boot("skipped", "due to missing qemu-system"), exc |-> ""]
    ELSE IF e.boot_utils # "ok"
    THEN [do |-> "raise", boot |-> Boot("", ""), exc |-> "RuntimeError"]
    ELSE [do |-> "wrapper", boot |-> Boot("", ""), exc |-> ""]

\* if proc.returncode == 0: 'successful' else: 'failed'
BootStatus(returncode) == IF returncode = 0 THEN Boot("successful", "") ELSE Boot("failed", "")

\* LKTRunner.run without the check of the clang target.
BaseCheckBinutilsOnly(self, e) ==
    IF /\ "CROSS_COMPILE" \in DOMAIN self.make_vars
       /\ Get(self.make_vars, "LLVM_IAS", ON) = OFF
       /\ ~Which(e, <<self.make_vars["CROSS_COMPILE"], "as">>)
    THEN "missing binutils"
    ELSE ""

\* LKTRunner.run without the check of binutils.
BaseCheckTargetOnly(self, e) ==
    IF self.clang_target \notin e.clang_targets THEN "missing clang target" ELSE ""

\* LKTRunner.run up to its loop: the two checks that skip the architecture.
BaseCheck(self, e) ==
    IF self.clang_target \notin e.clang_targets
    THEN "missing clang target"
    ELSE IF /\ "CROSS_COMPILE" \in DOMAIN self.make_vars
            /\ Get(self.make_vars, "LLVM_IAS", ON) = OFF
            /\ ~Which(e, <<self.make_vars["CROSS_COMPILE"], "as">>)
    THEN "missing binutils"
    ELSE ""

-----------------------------------------------------------------------------
\* lkt/report.py

\* LKTReport.__init__: self.results
LKTReport == [good |-> <<>>, bad |-> <<>>, skip |-> <<>>]

\* One string appended to a list of the report: the build line of a result
\* (what = "build") or its '<name> qemu boot <boot>' line.
Entry(name, what, status) == [name |-> name, what |-> what, status |-> status]

\* A build status nobody knows is filed under skip.
BuildDstLenient(build) ==
    CASE build = "failed" -> "bad"
      [] build = "successful" -> "good"
      [] OTHER -> "skip"

\* The list a build status selects; "" stands for the ValueError.
BuildDst(build) ==
    CASE build = "failed" -> "bad"
      [] build = "skipped" -> "skip"
      [] build = "successful" -> "good"
      [] OTHER -> ""

\* The list a boot string selects by the word it starts with.
BootDst(boot) ==
    CASE boot.status = "failed" -> "bad"
      [] boot.status = "skipped" -> "skip"
      [] boot.status = "successful" -> "good"
      [] OTHER -> ""

AppendTo(rep, dst, entry) == [rep EXCEPT ![dst] = Append(@, entry)]

\* The loop of generate_report over the results. The report so far and the
\* exception that ended the loop ("" when it ran to its end).
RECURSIVE generate_report(_, _)
generate_report(rep, rs) ==
    IF rs = <<>> THEN [results |-> rep, exc |-> ""]
    ELSE
        LET result == rs[1]
            bdst == BuildDst(result["build"])
            rep1 == AppendTo(rep, bdst, Entry(result["name"], "build", result["build"]))
        IN  IF bdst = "" THEN [results |-> rep, exc |-> "ValueError"]
            ELSE IF "boot" \notin DOMAIN result THEN generate_report(rep1, Tail(rs))
            ELSE IF BootDst(result["boot"]) = "" THEN [results |-> rep1, exc |-> "ValueError"]
            ELSE generate_report(
                    AppendTo(rep1, BootDst(result["boot"]),
                             Entry(result["name"], "qemu boot", result["boot"].status)),
                    Tail(rs))

-----------------------------------------------------------------------------
\* build.py

\* The architectures build.py knows, in the order sorted() puts them.
ArchOrder ==
    <<"arm", "arm64", "hexagon", "i386", "loongarch", "mips", "powerpc", "riscv", "s390", "x86_64">>

ArchRank(arch) == CHOOSE i \in 1..Len(ArchOrder) : ArchOrder[i] = arch

\* The architectures in the order of the command line.
Unsorted(s) == s

\* sorted(args.architectures): insertion into a sorted list, equal names
\* kept.
RECURSIVE Sorted(_)
Insert(arch, s) ==
    LET before == SelectSeq(s, LAMBDA x : ArchRank(x) <= ArchRank(arch))
        after == SelectSeq(s, LAMBDA x : ArchRank(x) > ArchRank(arch))
    IN  before \o <<arch>> \o after
Sorted(s) == IF s = <<>> THEN <<>> ELSE Insert(s[Len(s)], Sorted(SubSeq(s, 1, Len(s) - 1)))

\* The commits and the configuration symbols LinuxSourceManager looks for.
KnownCommits ==
    {"0355785313e21", "0b5e06e9cb156", "6f5b41a2f5a63", "231b232df8f67", "2255411d1d0f0", "297565aa22cfa",
     "48cf12d88969b", "51696f39cbee5", "583bfd484bcc8", "6fcb574125e67", "788dcee0306e1",
     "65eea6b44a5dd", "80ddf5ce1c929", "876e480da2f74", "89245600941e4", "925d046e7e52",
     "9451c79bc39e", "9d417cbe36eee", "a11334d8327b", "aaeed6ecc1253", "bb73d07148c40",
     "c47c7ab9b5363", "d5cbd80e302df", "d8e85e144bbe1", "ec3a5cb61146c", "f2928e224d85e",
     "ffb92ce826fd8", "efe5e0fea4b24", "e91946d6d93ef", "f1f99adf05f21"}
KnownConfigs ==
    {"CONFIG_CFI_CLANG", "CONFIG_HAVE_FUTEX_CMPXCHG", "CONFIG_LTO_CLANG_THIN",
     "CONFIG_MODULE_REL_CRCS", "CONFIG_PPC64_BIG_ENDIAN_ELF_ABI_V2", "CONFIG_SHADOW_CALL_STACK",
     "CONFIG_WERROR", "CONFIG_BPF_PRELOAD"}

\* What an earlier in-tree build leaves behind in a source tree.
GeneratedFolders == {"arch/x86/include/generated", "arch/s390/include/generated"}
Leftovers == {".config", "include/config"} \cup GeneratedFolders

\* A test that only looks for the .config file.
NotCleanConfigOnly(linux_source) == ".config" \in linux_source.leftovers

\* The test LinuxSourceManager.__init__ begins with, the same one Linux
\* makes: a .config file, an include/config folder, or any match of the
\* glob arch/*/include/generated.
NotClean(linux_source) ==
    \/ ".config" \in linux_source.leftovers
    \/ "include/config" \in linux_source.leftovers
    \/ linux_source.leftovers \cap GeneratedFolders # {}

\* LinuxSourceManager.__init__: the version, and the configuration symbols
\* and commits the files of the tree show. Two commits are only looked for
\* under a condition.
LinuxSourceManager(e) ==
    LET configs == e.linux.configs
        found == e.linux.commits
                 \cup (IF "scripts/Makefile.clang" \in e.linux.files THEN {"6f5b41a2f5a63"} ELSE {})
    IN  [version |-> e.linux.version,
         configs |-> configs \cap KnownConfigs,
         commits |-> {c \in found \cap KnownCommits :
                        /\ c = "65eea6b44a5dd" => "6f5b41a2f5a63" \in found
                        /\ c = "a11334d8327b" => "CONFIG_PPC64_BIG_ENDIAN_ELF_ABI_V2" \in configs}]

NoLsm == [version |-> DEFAULT_VERSION, configs |-> {}, commits |-> {}]

\* make_vars of build.py: the compression tools found in PATH and ccache.
MainMakeVars(a, e) ==
    Update(Update(IF a.use_ccache /\ Which(e, <<"", "ccache">>)
                  THEN "CC" :> "ccache clang" @@ "HOSTCC" :> "ccache clang" ELSE EmptyDict,
                  IF Which(e, <<"", "pbzip2">>) THEN "KBZIP2" :> "pbzip2" ELSE EmptyDict),
           IF Which(e, <<"", "pigz">>) THEN "KGZIP" :> "pigz" ELSE EmptyDict)

\* lkt_runners[arch](): the constructor of the architecture's runner; i386
\* calls LKTRunner.__init__ without its two arguments.
Construct(e, arch) ==
    CASE arch = "arm" -> [obj |-> ArmLKTRunner(e), exc |-> ""]
      [] arch = "arm64" -> [obj |-> Arm64LKTRunner(e), exc |-> ""]
      [] arch = "hexagon" -> [obj |-> HexagonLKTRunner(e), exc |-> ""]
      [] arch = "loongarch" -> [obj |-> LoongArchLKTRunner(e), exc |-> ""]
      [] arch = "mips" -> [obj |-> MipsLKTRunner(e), exc |-> ""]
      [] arch = "powerpc" -> [obj |-> PowerPCLKTRunner(e), exc |-> ""]
      [] arch = "riscv" -> [obj |-> RISCVLKTRunner(e), exc |-> ""]
      [] arch = "s390" -> [obj |-> S390LKTRunner(e), exc |-> ""]
      [] arch = "x86_64" -> [obj |-> X8664LKTRunner(e), exc |-> ""]
      [] OTHER -> [obj |-> LKTRunner(e, arch, ""), exc |-> "TypeError"]

\* The body of the loop of build.py up to runner.run().
Configure(self, a, e) ==
    [self EXCEPT !.make_vars = Update(@, MainMakeVars(a, e)),
                 !.only_test_boot = a.only_test_boot,
                 !.save_objects = a.save_objects,
                 !.targets = a.targets_to_build]

\* <Arch>LKTRunner.run up to super().run()
SubclassRun(self, e, l) ==
    CASE self.arch = "arm" -> ArmRun(self, e, l)
      [] self.arch = "arm64" -> Arm64Run(self, e, l)
      [] self.arch = "hexagon" -> HexagonRun(self, e, l)
      [] self.arch = "loongarch" -> LoongArchRun(self, e, l)
      [] self.arch = "mips" -> MipsRun(self, e, l)
      [] self.arch = "powerpc" -> PowerPCRun(self, e, l)
      [] self.arch = "riscv" -> RISCVRun(self, e, l)
      [] self.arch = "s390" -> S390Run(self, e, l)
      [] OTHER -> X8664Run(self, e, l)

-----------------------------------------------------------------------------
\* The pipeline.

\* An entry of the history: what was done, for which architecture and
\* which variant (0 when it is not about one variant).
Ev(k, a, i) == [k |-> k, a |-> a, i |-> i]

NoCur == [runner |-> LLVMKernelRunner, targets |-> <<>>, make_vars |-> EmptyDict,
          returncode |-> 0, fresh |-> FALSE, config |-> {}, missing |-> <<>>,
          warned |-> FALSE]

NoLkt == LKTRunner([path |-> {}, llvm_version |-> DEFAULT_VERSION], "", "")

\* The program ends with an uncaught exception.
Crash(exc) ==
    /\ pc' = "crashed"
    /\ err' = exc

\* build.py up to its loop: the source manager is built from the tree (a
\* RuntimeError if the tree is not clean), boot-utils is cloned or updated
\* with git when no folder was given (check=True).
LoadSource ==
    /\ pc = "start"
    /\ \E git_rc \in {0, 1} :
        /\ git_rc # 0 => /\ faults < env.fault_budget
                          /\ ~args.boot_utils_folder
                          /\ ~NotClean(env.linux)
        /\ faults' = IF git_rc # 0 THEN faults + 1 ELSE faults
        /\ IF NotClean(env.linux)
           THEN /\ Crash("RuntimeError")
                /\ UNCHANGED <<lsm, todo, events>>
           ELSE /\ lsm' = LinuxSourceManager(env)
                /\ events' = Append(events, Ev("source", "", 0))
                /\ IF git_rc # 0
                   THEN /\ Crash("CalledProcessError")
                        /\ todo' = todo
                   ELSE /\ pc' = "arch"
                        /\ todo' = Sorted(args.architectures)
                        /\ err' = err
    /\ UNCHANGED <<args, env, lkt, idx, cur, results, report, build_dir>>

\* LKTRunner.run up to its loop, reason being what its two checks found:
\* the architecture is skipped, or the loop over the variants is entered.
BaseRunStart(arch, self, reason) ==
    /\ events' = events \o <<Ev("plan", arch, 0), Ev("run", arch, 0)>>
    /\ IF reason # ""
       THEN /\ lkt' = SkipAll(self, Reason(reason, NoVer))
            /\ results' = results \o lkt'.results
            /\ todo' = Tail(todo)
            /\ UNCHANGED <<pc, err, idx>>
       ELSE /\ lkt' = self
            /\ idx' = 1
            /\ pc' = IF self.runners = <<>> THEN "cleanup" ELSE "build"
            /\ UNCHANGED <<err, results, todo>>

\* runner.run() of build.py, planned being what the run() of the subclass
\* did before super().run(): it raised, it returned a _skip_all, or it went
\* on into LKTRunner.run.
ArchRun(arch, planned) ==
    IF planned.ret = "raise"
    THEN /\ Crash(planned.exc)
         /\ lkt' = planned.self
         /\ events' = Append(events, Ev("plan", arch, 0))
         /\ UNCHANGED <<idx, results, todo>>
    ELSE IF planned.ret = "skip"
    THEN /\ lkt' = planned.self
         /\ results' = results \o planned.self.results
         /\ todo' = Tail(todo)
         /\ events' = Append(events, Ev("plan", arch, 0))
         /\ UNCHANGED <<pc, err, idx>>
    ELSE BaseRunStart(arch, planned.self, BaseCheck(planned.self, env))

\* The body of the loop of build.py, made being what the constructor of
\* the architecture's runner gave.
ArchLoopBody(arch, made) ==
    IF made.exc # ""
    THEN /\ Crash(made.exc)
         /\ events' = Append(events, Ev("plan", arch, 0))
         /\ UNCHANGED <<lkt, idx, results, todo>>
    ELSE ArchRun(arch, SubclassRun(Configure(made.obj, args, env), env, lsm))

\* One iteration of the loop of build.py up to the loop of LKTRunner.run:
\* the runner of the architecture is constructed and configured, its run()
\* plans the variants, and LKTRunner.run makes its two checks.
ArchStart ==
    /\ pc = "arch"
    /\ todo # <<>>
    /\ ArchLoopBody(Head(todo), Construct(env, Head(todo)))
    /\ UNCHANGED <<args, env, lsm, cur, report, build_dir, faults>>

\* What _build_kernel leaves of a variant whose final make has run.
Built(runner, plan, make_rc, fresh, missing_configs, config_text) ==
    [runner |-> [runner EXCEPT !.result = Set(@, "build", BuildStatus(make_rc))],
     targets |-> plan.targets,
     make_vars |-> plan.make_vars,
     returncode |-> make_rc,
     fresh |-> fresh,
     config |-> config_text,
     missing |-> missing_configs,
     warned |-> missing_configs # <<>>]

\* _build_kernel for the prepared variant, plan being its BuildPlan: the
\* build folder is removed, the configuration is made (a failing
\* preliminary make or merge_config.sh raises CalledProcessError) and the
\* final make runs, after which the requested options are looked for in
\* the .config olddefconfig wrote. The show_cmd keyword handed to chronic,
\* lkt.utils.cmd_str and the lkt.utils.run of _boot_kernel belong to a later
\* lkt/utils.py than the one of this tree; they print, format and run a
\* command line, and are taken to do only that.
BuildKernel(arch, runner, plan, cleaned) ==
    \E premake_rc, merge_rc, make_rc \in {0, 1} :
      \E changed \in KconfigChanges(plan.merged, env.fault_budget - faults) :
        /\ premake_rc # 0 => plan.exc = "" /\ plan.premake
        /\ merge_rc # 0 => plan.exc = "" /\ plan.merge /\ (plan.premake => premake_rc = 0)
        /\ make_rc # 0 =>
              plan.exc = "" /\ (plan.premake => premake_rc = 0) /\ (plan.merge => merge_rc = 0)
        /\ DOMAIN changed # {} =>
              plan.exc = "" /\ (plan.premake => premake_rc = 0) /\ (plan.merge => merge_rc = 0)
        /\ faults' = faults + premake_rc + merge_rc + make_rc + Cardinality(DOMAIN changed)
        /\ faults' <= env.fault_budget
        /\ IF plan.exc # ""
           THEN /\ Crash(plan.exc)
                /\ build_dir' = cleaned
                /\ UNCHANGED <<cur, events>>
           ELSE IF (plan.premake /\ premake_rc # 0) \/ (plan.merge /\ merge_rc # 0)
           THEN /\ Crash("CalledProcessError")
                /\ build_dir' = CreateBuildFolder(cleaned, arch)
                /\ events' = Append(events, Ev("config", arch, idx))
                /\ cur' = cur
           ELSE /\ pc' = "boot"
                /\ err' = err
                /\ build_dir' = CreateBuildFolder(cleaned, arch)
                /\ events' = Append(events, Ev("make", arch, idx))
                /\ cur' = Built(runner, plan, make_rc, arch \notin cleaned,
                                MissingConfigs(plan.requested_options,
                                               FinalConfig(plan.merged, changed)),
                                FinalConfig(plan.merged, changed))

\* LLVMKernelRunner.run for the variant the loop of LKTRunner.run prepared.
RunVariant(runner) ==
    BuildKernel(runner.make_vars["ARCH"], runner, BuildPlan(runner, env),
                CleanBuildFolder(build_dir, runner.make_vars["ARCH"]))

\* One iteration of the loop of LKTRunner.run, up to the end of
\* _build_kernel.
BuildVariant ==
    /\ pc = "build"
    /\ RunVariant(RunnerPrepare(lkt.runners[idx], lkt, env, lsm))
    /\ UNCHANGED <<args, env, lsm, todo, lkt, idx, results, report>>

\* The rest of the iteration: _boot_kernel, and the result of the variant
\* is appended to the results of the architecture.
BootVariant ==
    /\ pc = "boot"
    /\ LET runner == cur.runner
           plan == BootPlan(runner, env)
       IN  \E boot_rc \in {0, 1} :
            /\ boot_rc # 0 => plan.do = "wrapper" /\ faults < env.fault_budget
            /\ faults' = faults + boot_rc
            /\ IF plan.do = "raise"
               THEN /\ Crash(plan.exc)
                    /\ UNCHANGED <<lkt, idx, cur, events>>
               ELSE LET result == CASE plan.do = "skip" -> Set(runner.result, "boot", plan.boot)
                                    [] plan.do = "wrapper" ->
                                         Set(runner.result, "boot", BootStatus(boot_rc))
                                    [] OTHER -> runner.result
                    IN  /\ lkt' = [lkt EXCEPT !.results = Append(@, result)]
                        /\ events' = IF plan.do = "wrapper"
                                     THEN Append(events, Ev("boot", lkt.arch, idx))
                                     ELSE events
                        /\ idx' = idx + 1
                        /\ cur' = NoCur
                        /\ pc' = IF idx = Len(lkt.runners) THEN "cleanup" ELSE "build"
                        /\ err' = err
    /\ UNCHANGED <<args, env, lsm, todo, results, report, build_dir>>

\* After the loop of LKTRunner.run: the build folder is removed unless the
\* objects are to be saved, and build.py adds the results of the
\* architecture to its own.
FinishArch ==
    /\ pc = "cleanup"
    /\ IF ~lkt.save_objects /\ lkt.arch \notin build_dir
       THEN /\ Crash("FileNotFoundError")
            /\ UNCHANGED <<results, todo, build_dir, events>>
       ELSE /\ build_dir' = IF lkt.save_objects THEN build_dir ELSE build_dir \ {lkt.arch}
            /\ results' = results \o lkt.results
            /\ todo' = Tail(todo)
            /\ events' = Append(events, Ev("finish", lkt.arch, 0))
            /\ pc' = "arch"
            /\ err' = err
    /\ UNCHANGED <<args, env, lsm, lkt, idx, cur, report, faults>>

\* report.generate_report(results)
GenerateReport ==
    /\ pc = "arch"
    /\ todo = <<>>
    /\ LET done == generate_report(LKTReport, results)
       IN  /\ report' = done.results
           /\ events' = Append(events, Ev("report", "", 0))
           /\ IF done.exc # ""
              THEN Crash(done.exc)
              ELSE pc' = "done" /\ err' = err
    /\ UNCHANGED <<args, env, lsm, todo, lkt, idx, cur, results, build_dir, faults>>

Next ==
    \/ LoadSource
    \/ ArchStart
    \/ BuildVariant
    \/ BootVariant
    \/ FinishArch
    \/ GenerateReport

-----------------------------------------------------------------------------
\* The machines and the trees the program is run on.

Archs == {"arm", "arm64", "hexagon", "i386", "loongarch", "mips", "powerpc", "riscv", "s390",
          "x86_64"}

\* The --target= values a clang built with every backend accepts.
AllClangTargets ==
    {ARM_CLANG_TARGET, ARM64_CLANG_TARGET, HEXAGON_CLANG_TARGET, LOONGARCH_CLANG_TARGET,
     MIPS_CLANG_TARGET, PPC_CLANG_TARGET, RISCV_CLANG_TARGET, S390_CLANG_TARGET,
     X86_64_CLANG_TARGET}

LlvmTools == {<<"", "clang">>, <<"", "ld.lld">>, <<"", "llvm-objcopy">>}
HostTools == {<<"", "ccache">>, <<"", "pbzip2">>, <<"", "pigz">>, <<"", "pahole">>}
Assemblers ==
    {<<p, "as">> : p \in {"aarch64-linux-gnu-", "arm-linux-gnu-", "mips64-linux-gnu-",
                          "powerpc64-linux-gnu-", "powerpc64le-linux-gnu-",
                          "riscv64-linux-gnu-", "s390x-linux-gnu-", "x86_64-linux-gnu-"}}
Emulators ==
    {<<"qemu-system-", a>> : a \in {"aarch64", "arm", "loongarch64", "mips", "mipsel", "ppc",
                                    "ppc64", "riscv64", "s390x", "x86_64"}}

\* A clean mainline tree of a recent release: every commit source.py looks
\* for is in it, the two symbols that were removed are not.
NewTree ==
    [version |-> <<6, 12, 0>>,
     leftovers |-> {},
     commits |-> KnownCommits,
     configs |-> KnownConfigs \ {"CONFIG_HAVE_FUTEX_CMPXCHG", "CONFIG_MODULE_REL_CRCS"},
     files |-> {"scripts/Makefile.clang", "scripts/Makefile.clang:ifeq ($(LLVM_IAS),0)",
                "scripts/min-tool-version.sh",
                "arch/arm/Kconfig:select ARCH_SUPPORTS_CFI_CLANG", "arch/arm/boot/dts/aspeed",
                "arch/arm/mm/Kconfig:depends on !LD_IS_LLD",
                "arch/arm64/Kconfig:config CPU_BIG_ENDIAN", "arch/arm64/configs/virt.config",
                "arch/loongarch/Makefile:--apply-dynamic-relocs",
                "arch/powerpc/Kconfig:max_order_8",
                "arch/riscv/Kconfig:ARCH_SUPPORTS_CFI_CLANG",
                "arch/riscv/Kconfig:ARCH_SUPPORTS_LTO_CLANG",
                "arch/riscv/Kconfig:ARCH_SUPPORTS_SHADOW_CALL_STACK",
                "arch/riscv/Kconfig:config EFI", "arch/s390/Makefile:-z notext",
                "arch/s390/boot/Makefile:--set-section-flags .vmlinux.info=alloc,load",
                "init/Kconfig:BASE_SMALL_bool", "kernel/configs/hardening.config"},
     kcfi |-> {<<"arch_supports_kcfi", "arm64">>, <<"arch_supports_kcfi", "x86_64">>},
     min_llvm |-> [a \in Archs |-> CASE a = "s390" -> <<15, 0, 0>>
                                     [] a = "loongarch" -> <<18, 0, 0>>
                                     [] OTHER -> <<13, 0, 1>>],
     tristate |-> {"CRYPTO_BLAKE2S_ARM", "DRM_DP_AUX_BUS", "MTD_NAND_ECC_SW_HAMMING",
                   "UNICODE", "ZPOOL"}]

\* A clean tree of an old long-term release: only what was merged up to it.
OldTree ==
    [version |-> <<5, 10, 0>>,
     leftovers |-> {},
     commits |-> {"231b232df8f67", "9451c79bc39e", "d8e85e144bbe1", "e91946d6d93ef"},
     configs |-> {"CONFIG_HAVE_FUTEX_CMPXCHG", "CONFIG_MODULE_REL_CRCS",
                  "CONFIG_SHADOW_CALL_STACK", "CONFIG_BPF_PRELOAD"},
     files |-> {"arch/arm64/Kconfig:config CPU_BIG_ENDIAN", "arch/riscv/Kconfig:config EFI",
                "arch/s390/boot/Makefile:objdump -t -j workaround",
                "drivers/mfd/Makefile:arizona-objs", "init/Kconfig:BASE_SMALL_int"},
     kcfi |-> {},
     min_llvm |-> [a \in Archs |-> DEFAULT_VERSION],
     tristate |-> {"CRYPTO_BLAKE2S_ARM", "MTD_NAND_ECC_SW_HAMMING", "ZPOOL"}]

Trees == {NewTree, OldTree}

\* A vendor tree of Linux 5.8 to which fixes of later releases were applied.
BackportTree ==
    [OldTree EXCEPT !.version = <<5, 8, 0>>,
                    !.commits = @ \cup {"ec3a5cb61146c"}]

\* Trees at the edges of the version tests, and the architectures whose
\* tests they are the edges of.
\* A mainline tree of a long-term release whose min-tool-version.sh asks
\* for less than the hard minimums.
LtsTree ==
    [NewTree EXCEPT !.version = <<6, 6, 0>>,
                    !.min_llvm = [a \in Archs |-> <<11, 0, 0>>]]

EdgeTrees == {BackportTree, LtsTree}
EdgeArchs == {"arm", "hexagon", "loongarch", "mips", "riscv", "s390"}
LlvmVersions == {<<13, 0, 1>>, <<19, 1, 0>>}
EdgeLlvmVersions == LlvmVersions \cup {<<12, 0, 1>>}

\* An x86_64 machine with everything installed. boot_utils is the state of
\* the boot-utils folder the variants are given: "ok" when it holds
\* boot-qemu.py, as the one git clones does. fault_budget external commands
\* may exit non-zero in the run.
Machine(tree, llvm_version, fault_budget) ==
    [path |-> LlvmTools \cup HostTools \cup Assemblers \cup Emulators,
     clang_targets |-> AllClangTargets,
     llvm_version |-> llvm_version,
     qemu_version |-> <<9, 1, 0>>,
     binutils_version |-> <<2, 43, 0>>,
     tools |-> {"ld.lld:elf64_s390", "llvm-objcopy:elf64-s390", "clang:loongarch model(extreme)"},
     machine |-> "x86_64",
     boot_utils |-> "ok",
     linux |-> tree,
     distro_set |-> {"BPF_PRELOAD", "DEBUG_INFO_BTF", "EFI_ZBOOT", "EXTRA_FIRMWARE",
                     "RELOCATABLE", "STM", "SYSTEM_TRUSTED_KEYS", "X86_X32_ABI"},
     distro_modular |-> {"ANDROID_BINDER_IPC", "DRM_DP_AUX_BUS", "MFD_ARIZONA", "RATIONAL",
                         "UNICODE", "ZPOOL"},
     distro_base_small |-> "0",
     fault_budget |-> fault_budget]

\* What a machine may lack.
Deviations ==
    {"no clang target", "no binutils", "old qemu", "no qemu", "no boot-utils"} \cup Leftovers

Deviate(m, d) ==
    CASE d = "no clang target" -> [m EXCEPT !.clang_targets = {X86_64_CLANG_TARGET}]
      [] d = "no binutils" -> [m EXCEPT !.path = @ \ Assemblers]
      [] d = "old qemu" -> [m EXCEPT !.qemu_version = <<5, 2, 0>>]
      [] d = "no qemu" -> [m EXCEPT !.path = @ \ Emulators]
      [] d = "no boot-utils" -> [m EXCEPT !.boot_utils = "missing"]
      [] OTHER -> [m EXCEPT !.linux.leftovers = @ \cup {d}]

RECURSIVE DeviateAll(_, _)
DeviateAll(m, ds) ==
    IF ds = {} THEN m
    ELSE LET d == CHOOSE x \in ds : TRUE IN DeviateAll(Deviate(m, d), ds \ {d})

\* The machines without faults: a tree, an LLVM, at most n things missing.
QuietMachines(n) ==
    {DeviateAll(Machine(tree, llvm, 0), ds) :
        tree \in Trees, llvm \in LlvmVersions,
        ds \in {s \in SUBSET Deviations : Cardinality(s) <= n}}

\* The machines with everything installed and a tree at an edge.
EdgeMachines == {Machine(tree, llvm, 0) : tree \in EdgeTrees, llvm \in EdgeLlvmVersions}

\* Trees at the edges of powerpc's tests. Mainline as it was released: the
\* 440 processors depend on !CC_IS_CLANG, and a big endian kernel may be
\* built for ELFv2.
MainlineTree ==
    [NewTree EXCEPT !.files = @ \cup {"arch/powerpc/platforms/Kconfig.cputype:depends on !CC_IS_CLANG",
                                       "arch/powerpc/Kconfig:ELF ABI V2 if LD_IS_BFD"}]

\* Linux 5.18: 48cf12d88969b and 297565aa22cfa are in, 2255411d1d0f0 is
\* not, and ELFv1 is the only ABI of a big endian kernel.
Linux518Tree ==
    [OldTree EXCEPT !.version = <<5, 18, 0>>,
                    !.commits = @ \cup {"297565aa22cfa", "48cf12d88969b"}]

\* A vendor tree of Linux 5.10 to which the ELFv2 choice was applied.
ElfV2BackportTree ==
    [OldTree EXCEPT !.configs = @ \cup {"CONFIG_PPC64_BIG_ENDIAN_ELF_ABI_V2"},
                    !.files = @ \cup {"arch/powerpc/Kconfig:ELF ABI V2 if LD_IS_BFD"}]

\* A tree in which ELFv2 is the only ABI: the choice is gone.
ElfV2OnlyTree ==
    [NewTree EXCEPT !.configs = @ \ {"CONFIG_PPC64_BIG_ENDIAN_ELF_ABI_V2"}]

PowerpcTrees == {NewTree, MainlineTree, Linux518Tree, ElfV2BackportTree, ElfV2OnlyTree}
PowerpcLlvmVersions == {<<11, 1, 0>>, <<12, 0, 1>>, <<14, 0, 2>>, <<16, 0, 0>>}
PowerpcMachines ==
    {Machine(tree, llvm, 0) : tree \in PowerpcTrees, llvm \in PowerpcLlvmVersions}

\* The architectures requested on the machine on which commands fail.
FlakyArchs == {"hexagon", "x86_64"}

\* What else is requested on that machine, one architecture at a time: the
\* variants with options that are to be off, and the distribution
\* configurations.
FlakyTargets == {<<"hexagon", "other">>, <<"x86_64", "distro">>}

\* The machine on which commands fail.
FlakyMachines == {Machine(NewTree, <<19, 1, 0>>, MaxFaults)}

\* argparse: the parsed command line; boot_utils_folder tells whether
\* --boot-utils-folder was given.
Args(architectures, targets, only_test_boot, save_objects, boot_utils_folder) ==
    [architectures |-> architectures,
     targets_to_build |-> targets,
     only_test_boot |-> only_test_boot,
     save_objects |-> save_objects,
     boot_utils_folder |-> boot_utils_folder,
     use_ccache |-> TRUE]

ArchLists(archs, n) == UNION {[1..k -> archs] : k \in 1..n}

Init ==
    /\ pc = "start"
    /\ \/ /\ build_dir \in {{}, Archs}
          /\ env \in QuietMachines(IF build_dir = {} THEN MaxDeviations ELSE MaxDeviations - 1)
          /\ \E arch \in Archs, otb, save \in BOOLEAN :
                args = Args(<<arch>>, {"def", "other", "distro"}, otb, save,
                            env.boot_utils # "ok")
       \/ /\ env \in FlakyMachines
          /\ \E archs \in ArchLists(FlakyArchs, MaxArchs), otb, save \in BOOLEAN :
                args = Args(archs, {"def"}, otb, save, FALSE)
          /\ build_dir = {}
       \/ /\ env \in FlakyMachines
          /\ \E at \in FlakyTargets, save \in BOOLEAN :
                args = Args(<<at[1]>>, {at[2]}, FALSE, save, FALSE)
          /\ build_dir = {}
       \/ /\ env \in EdgeMachines
          /\ \E arch \in EdgeArchs, otb, save \in BOOLEAN :
                args = Args(<<arch>>, {"def", "other", "distro"}, otb, save, FALSE)
          /\ build_dir = {}
       \/ /\ env \in PowerpcMachines
          /\ \E otb \in BOOLEAN :
                args = Args(<<"powerpc">>, {"def"}, otb, FALSE, FALSE)
          /\ build_dir = {}
    /\ lsm = NoLsm
    /\ todo = <<>>
    /\ lkt = NoLkt
    /\ idx = 0
    /\ cur = NoCur
    /\ results = <<>>
    /\ report = LKTReport
    /\ events = <<>>
    /\ faults = 0
    /\ err = ""

Spec == Init /\ [][Next]_vars

-----------------------------------------------------------------------------
\* generate_report on its own: the results handed to it are drawn from the
\* build and boot results a result can carry, and one no code writes.

ReportBuilds == {"successful", "failed", "skipped", "unknown"}
ReportBoots == {Boot("successful", ""), Boot("failed", ""), Boot("skipped", ""),
                Boot("unknown", "")}

\* The i-th result handed over: its name is its own.
ReportResults(i) ==
    LET name == Name(ArchOrder[i], <<Str("defconfig")>>)
    IN  {("name" :> name @@ "build" :> b) : b \in ReportBuilds}
        \cup {("name" :> name @@ "build" :> b @@ "boot" :> q) :
                b \in ReportBuilds, q \in ReportBoots}

\* The lists of n results.
RECURSIVE ReportInputsOfLen(_)
ReportInputsOfLen(n) ==
    IF n = 0 THEN {<<>>}
    ELSE {Append(rs, r) : rs \in ReportInputsOfLen(n - 1), r \in ReportResults(n)}

ReportInputs == UNION {ReportInputsOfLen(n) : n \in 0..MaxResults}

InitReport ==
    /\ pc = "arch"
    /\ todo = <<>>
    /\ results \in ReportInputs
    /\ args = Args(<<>>, {}, FALSE, FALSE, FALSE)
    /\ env = Machine(NewTree, <<19, 1, 0>>, 0)
    /\ lsm = LinuxSourceManager(env)
    /\ lkt = NoLkt
    /\ idx = 0
    /\ cur = NoCur
    /\ report = LKTReport
    /\ build_dir = {}
    /\ events = <<>>
    /\ faults = 0
    /\ err = ""

NextReport == GenerateReport

SpecReport == InitReport /\ [][NextReport]_vars

-----------------------------------------------------------------------------
\* The comparisons of versions on their own: three operands, each a plain
\* tuple (as lsm.version is) or a Version object (as LinuxVersion(5, 13, 0)
\* is), all of the length of DEFAULT_VERSION, and every operator applied to
\* every ordered pair of them.

VersionKeys ==
    {<<x, y, z>> : x \in 0..MaxVersionPart, y \in 0..MaxVersionPart, z \in 0..MaxVersionPart}
VersionOperands == {PyTuple(k) : k \in VersionKeys} \cup {PyVersion(k) : k \in VersionKeys}

\* The expressions 'a op b' of the code, evaluated for the operands at hand.
CompareVersions ==
    /\ pc = "versions"
    /\ results' = [op \in CompareOps |->
                      [i \in 1..Len(cur) |->
                          [j \in 1..Len(cur) |-> PyCompare(op, cur[i], cur[j])]]]
    /\ pc' = "compared"
    /\ UNCHANGED <<args, env, lsm, todo, lkt, idx, cur, report, build_dir, events, faults, err>>

InitVersion ==
    /\ pc = "versions"
    /\ cur \in [1..3 -> VersionOperands]
    /\ results = <<>>
    /\ todo = <<>>
    /\ args = Args(<<>>, {}, FALSE, FALSE, FALSE)
    /\ env = Machine(NewTree, <<19, 1, 0>>, 0)
    /\ lsm = NoLsm
    /\ lkt = NoLkt
    /\ idx = 0
    /\ report = LKTReport
    /\ build_dir = {}
    /\ events = <<>>
    /\ faults = 0
    /\ err = ""

NextVersion == CompareVersions

SpecVersion == InitVersion /\ [][NextVersion]_vars

-----------------------------------------------------------------------------
\* The claims.

\* The last thing the program did.
LastEvent == IF events = <<>> THEN Ev("", "", 0) ELSE events[Len(events)]

\* The number of events of kind k for architecture a.
CountEvents(k, a) == Cardinality({i \in 1..Len(events) : events[i].k = k /\ events[i].a = a})

\* C1: for every variant, boot-qemu.py is invoked only if the variant is
\* bootable and its build is 'successful'; a bootable variant whose build
\* 'failed' gets the boot result 'skipped' and no invocation; a variant that
\* is not bootable gets no invocation, whatever its build result.
C1_BootOnlyAfterSuccessfulBuild ==
    [][pc = "boot" =>
        LET runner == cur.runner
            invoked == events' = Append(events, Ev("boot", lkt.arch, idx))
            recorded == lkt'.results[Len(lkt'.results)]
        IN  /\ events' # events => invoked
            /\ invoked => runner.bootable /\ runner.result["build"] = "successful"
            /\ runner.bootable /\ runner.result["build"] = "failed" =>
                  /\ ~invoked
                  /\ Len(lkt'.results) = Len(lkt.results) + 1
                  /\ recorded["boot"] = Boot("skipped", "")
            /\ ~runner.bootable => ~invoked]_vars

\* A bootable variant failed to build and its boot was skipped, after the
\* wrapper had been invoked for an earlier variant of the architecture.
C1_Witness ==
    /\ \E i \in 1..Len(lkt.results) :
          /\ lkt.results[i]["build"] = "failed"
          /\ "boot" \in DOMAIN lkt.results[i]
          /\ lkt.results[i]["boot"] = Boot("skipped", "")
    /\ CountEvents("boot", lkt.arch) > 0

\* A run ended by the runtime outcome of one variant: a failing preliminary
\* make or merge_config.sh, or boot-utils missing when the variant was to
\* be booted.
RuntimeOutcomeEndedRun ==
    /\ pc = "crashed"
    /\ \/ LastEvent.k = "config"
       \/ /\ LastEvent.k = "make"
          /\ cur.targets # <<>>
          /\ cur.runner.bootable
          /\ cur.runner.result["build"] = "successful"
          /\ Which(env, <<"qemu-system-", cur.runner.qemu_arch>>)
          /\ env.boot_utils # "ok"

\* C2: no variant depends on the runtime result of another: whatever the
\* outcome of a variant (final make, preliminary make or merge_config.sh
\* failing, boot failing, boot-utils missing), the later variants of the
\* architecture and of the later architectures are still run: no such
\* outcome ends the run.
C2_VariantsIndependent == ~RuntimeOutcomeEndedRun

\* The number of entries of a list of the report that are equal to entry.
InList(list, entry) ==
    Cardinality({j \in 1..Len(report[list]) : report[list][j] = entry})

\* The list the claim assigns to a status.
CategoryOf(status) ==
    CASE status = "successful" -> "good"
      [] status = "failed" -> "bad"
      [] status = "skipped" -> "skip"
      [] OTHER -> "none"

\* The entry is once in the list its status selects and in no other list.
OnlyIn(entry, status) ==
    \A list \in {"good", "bad", "skip"} :
        InList(list, entry) = (IF list = CategoryOf(status) THEN 1 ELSE 0)

\* C3: generate_report puts every result into exactly one of good, bad and
\* skip by its build status and raises ValueError for any other build
\* status; a result with a 'boot' key adds exactly one more entry, placed by
\* the boot status alone; so a finished report holds as many entries as
\* there are results plus results with a 'boot' key.
C3_ReportPartition ==
    LastEvent.k = "report" =>
        LET n == Len(results)
            with_boot == {i \in 1..n : "boot" \in DOMAIN results[i]}
        IN  /\ (\E i \in 1..n : CategoryOf(results[i]["build"]) = "none") =>
                  pc = "crashed" /\ err = "ValueError"
            /\ pc = "done" =>
                  /\ \A i \in 1..n :
                        OnlyIn(Entry(results[i]["name"], "build", results[i]["build"]),
                               results[i]["build"])
                  /\ \A i \in with_boot :
                        OnlyIn(Entry(results[i]["name"], "qemu boot", results[i]["boot"].status),
                               results[i]["boot"].status)
                  /\ Len(report["good"]) + Len(report["bad"]) + Len(report["skip"])
                        = n + Cardinality(with_boot)

\* A finished report of a skipped result, and of a built one whose boot
\* failed.
C3_Witness ==
    /\ pc = "done"
    /\ LastEvent.k = "report"
    /\ \E i, j \in 1..Len(results) :
          /\ results[i]["build"] = "skipped"
          /\ results[j]["build"] = "successful"
          /\ "boot" \in DOMAIN results[j]
          /\ results[j]["boot"].status = "failed"

\* C4: the build of a variant is 'successful' if and only if the final make
\* exits with code 0 and 'failed' otherwise; requested options found
\* missing after olddefconfig only give a warning and leave the result as
\* the exit code made it.
C4_BuildStatusIsMakeExitCode ==
    pc = "boot" =>
        /\ cur.returncode = 0 <=> cur.runner.result["build"] = "successful"
        /\ cur.returncode # 0 <=> cur.runner.result["build"] = "failed"

\* A build whose make exited with 0 and whose requested options were found
\* missing.
C4_Witness ==
    /\ pc = "boot"
    /\ cur.warned
    /\ cur.returncode = 0
    /\ cur.runner.result["build"] = "successful"

\* The architectures planned so far, in the order they were planned.
PlannedArchs ==
    LET plans == SelectSeq(events, LAMBDA ev : ev.k = "plan")
    IN  [i \in 1..Len(plans) |-> plans[i].a]

\* The order of what the program did.
C5_EventsInOrder ==
    LET n == Len(events)
    IN  \A i \in 1..n :
            LET ev == events[i]
                before == IF i = 1 THEN Ev("", "", 0) ELSE events[i - 1]
            IN  /\ ev.k = "source" <=> i = 1
                /\ ev.k = "plan" =>
                      \A j \in 1..(i - 1) :
                          events[j].k = "plan" => ArchRank(events[j].a) <= ArchRank(ev.a)
                /\ ev.k = "run" => before = Ev("plan", ev.a, 0)
                /\ ev.k \in {"config", "make"} =>
                      /\ ev.i = 1 => before = Ev("run", ev.a, 0)
                      /\ ev.i > 1 => before \in {Ev("make", ev.a, ev.i - 1),
                                                 Ev("boot", ev.a, ev.i - 1)}
                /\ ev.k = "boot" => before = Ev("make", ev.a, ev.i)
                /\ ev.k = "report" =>
                      /\ i = n
                      /\ todo = <<>>
                      /\ Len(PlannedArchs) = Len(args.architectures)
                      /\ \A a \in Archs :
                            Cardinality({j \in 1..Len(PlannedArchs) : PlannedArchs[j] = a})
                              = Cardinality({j \in 1..Len(args.architectures) :
                                                args.architectures[j] = a})

\* C5: the source facts are loaded before any architecture is planned; the
\* architectures are processed in sorted order; all planning of an
\* architecture (its runners, its per-variant skips) is done before its
\* first make; the variants are run in the order they were planned; the
\* build of a variant ends before its boot test starts; the report is
\* generated only after every requested architecture returned its results.
C5_PipelineOrder ==
    /\ []C5_EventsInOrder
    /\ [](\A i, j \in 1..Len(lkt.results) :
            i < j /\ lkt.results[j]["build"] = "skipped" /\ pc # "arch" =>
                lkt.results[i]["build"] = "skipped")
    /\ [][(pc = "build" \/ pc = "boot") => lkt'.runners = lkt.runners]_vars

\* A finished run of two architectures given in another order than the
\* sorted one, with variants built and booted.
C5_Witness ==
    /\ pc = "done"
    /\ Len(args.architectures) = 2
    /\ ArchRank(args.architectures[1]) > ArchRank(args.architectures[2])
    /\ \E a \in Archs : CountEvents("boot", a) > 0

\* The state LKTRunner.run leaves when its two checks are done: lkt is the
\* runner, skipped or about to run its variants.
AtBaseRun == LastEvent.k = "run"

\* C6: when clang does not support the target of the architecture,
\* LKTRunner.run returns exactly one result, build 'skipped' with reason
\* 'missing clang target'; no planned variant is run and the build folder
\* is not touched.
C6_MissingClangTarget ==
    [][(AtBaseRun' /\ pc = "arch" /\ lkt'.clang_target \notin env.clang_targets) =>
          /\ lkt'.results = <<SkipResult(Name(Head(todo), <<Str("kernels")>>),
                                         Reason("missing clang target", NoVer))>>
          /\ results' = results \o lkt'.results
          /\ pc' = "arch"
          /\ todo' = Tail(todo)
          /\ build_dir' = build_dir]_vars

\* An architecture with planned variants and a build folder left by an
\* earlier run, skipped for the missing target.
C6_Witness ==
    /\ AtBaseRun
    /\ lkt.clang_target \notin env.clang_targets
    /\ lkt.runners # <<>>
    /\ Len(lkt.results) = 1
    /\ lkt.results[1]["reason"] = Reason("missing clang target", NoVer)
    /\ lkt.arch \in build_dir

\* LKTRunner.run skipped the architecture for the reason given.
SkippedFor(text) ==
    /\ pc = "arch"
    /\ lkt.results = <<SkipResult(Name(lkt.arch, <<Str("kernels")>>), Reason(text, NoVer))>>

\* C7: for powerpc, when none of the candidate '<CROSS_COMPILE>as' is in
\* PATH, the whole powerpc build is skipped: one skipped result with reason
\* 'missing binutils', no powerpc variant built.
C7_PowerpcSkippedWithoutBinutils ==
    (/\ AtBaseRun
     /\ lkt.arch = "powerpc"
     /\ lkt.clang_target \in env.clang_targets
     /\ \A prefix \in {"powerpc64-linux-gnu-", "powerpc-linux-gnu-", "powerpc64le-linux-gnu-"} :
            ~Which(env, <<prefix, "as">>))
    => SkippedFor("missing binutils")

\* The architecture is to be built with GNU as through a CROSS_COMPILE
\* whose assembler is not in PATH.
GnuAsMissing ==
    /\ "CROSS_COMPILE" \in DOMAIN lkt.make_vars
    /\ "LLVM_IAS" \in DOMAIN lkt.make_vars
    /\ lkt.make_vars["LLVM_IAS"] = OFF
    /\ ~Which(env, <<lkt.make_vars["CROSS_COMPILE"], "as">>)

\* No result of the architecture gives 'missing binutils' as its reason.
NoBinutilsSkip ==
    \A i \in 1..Len(lkt.results) :
        "reason" \in DOMAIN lkt.results[i] =>
            lkt.results[i]["reason"] # Reason("missing binutils", NoVer)

\* C8 as stated: whenever LLVM_IAS is 0 in the make variables of the
\* architecture and '<CROSS_COMPILE>as' is not in PATH, LKTRunner.run builds
\* no variant and returns the one skipped result 'missing binutils';
\* otherwise this check never skips.
C8_Original ==
    AtBaseRun =>
        /\ GnuAsMissing => SkippedFor("missing binutils")
        /\ ~GnuAsMissing => NoBinutilsSkip

\* C8, amended: the same, provided clang supports the target of the
\* architecture (the check of the target comes first and gives its own
\* reason).
C8_MissingBinutils ==
    AtBaseRun =>
        /\ GnuAsMissing /\ lkt.clang_target \in env.clang_targets =>
              SkippedFor("missing binutils")
        /\ GnuAsMissing /\ lkt.clang_target \notin env.clang_targets =>
              SkippedFor("missing clang target")
        /\ ~GnuAsMissing => NoBinutilsSkip

\* An architecture with planned variants skipped for its missing assembler.
C8_Witness ==
    /\ AtBaseRun
    /\ GnuAsMissing
    /\ lkt.runners # <<>>
    /\ SkippedFor("missing binutils")

\* C9: with --only-test-boot every variant that is run is bootable and its
\* make command names the image target of the variant instead of 'all'.
C9_OnlyTestBoot ==
    (args.only_test_boot /\ pc = "boot") =>
        /\ cur.runner.bootable
        /\ InSeq(Str(cur.runner.image_target), cur.targets)
        /\ ~InSeq(Str("all"), cur.targets)

\* C10: after LKTRunner.run has run the variants of an architecture its
\* build folder is gone, unless save_objects is set, and then it is left in
\* place; every variant removes the build folder it finds before it starts.
C10_BuildFolder ==
    /\ [](pc = "boot" => cur.fresh)
    /\ [][(pc = "cleanup" /\ pc' = "arch") =>
            IF lkt.save_objects
            THEN build_dir' = build_dir /\ (lkt.runners # <<>> => lkt.arch \in build_dir')
            ELSE lkt.arch \notin build_dir']_vars

\* Two variants and more were run and the folder was removed at the end.
C10_Witness ==
    /\ LastEvent.k = "finish"
    /\ ~lkt.save_objects
    /\ Len(lkt.runners) >= 2
    /\ CountEvents("make", lkt.arch) >= 2
    /\ lkt.arch \notin build_dir

\* C11: an unclean source tree (a .config file, an include/config folder or
\* an arch/*/include/generated folder) is refused: the run ends with
\* RuntimeError in its first step, the source manager was never filled in
\* (no version, no commits, no configs), and nothing was planned, built or
\* reported.
C11_UncleanTreeRefused ==
    env.linux.leftovers \cap Leftovers # {} =>
        /\ pc \in {"start", "crashed"}
        /\ pc = "crashed" => err = "RuntimeError"
        /\ lsm = NoLsm
        /\ events = <<>>
        /\ results = <<>>
        /\ lkt = NoLkt
        /\ report = LKTReport
        /\ faults = 0

\* A tree whose only leftover is a generated folder was refused.
C11_Witness ==
    /\ env.linux.leftovers \in SUBSET GeneratedFolders
    /\ env.linux.leftovers # {}
    /\ pc = "crashed"
    /\ err = "RuntimeError"

\* The s390 variants are being run on a machine whose qemu-system-s390x is
\* installed and older than 6.0.0.
S390WithOldQemu ==
    /\ lkt.arch = "s390"
    /\ <<"qemu-system-", "s390x">> \in env.path
    /\ TupleLT(env.qemu_version, <<6, 0, 0>>)

RiscvPlanned == lkt.arch = "riscv" /\ pc \in {"build", "boot", "cleanup"}

\* The plan of the current architecture has a skipped result of this name.
SkippedGroup(name) ==
    \E i \in 1..Len(lkt.results) :
        lkt.results[i]["name"] = name /\ lkt.results[i]["build"] = "skipped"

\* The plan of the current architecture has a variant with these words
\* among its configurations.
PlannedVariant(item) ==
    \E i \in 1..Len(lkt.runners) : InSeq(item, lkt.runners[i].configs)

\* C13: on riscv without only_test_boot the group 'riscv other and distro
\* configs' is skipped exactly when the kernel is older than 5.8.0 or commit
\* ec3a5cb61146c is missing; with a kernel of 5.8.0 or later that has the
\* commit, the requested allmodconfig and distribution variants are planned.
C13_RiscvOtherDistro ==
    RiscvPlanned /\ ~lkt.only_test_boot =>
        LET too_old == TupleLT(lsm.version, <<5, 8, 0>>) \/ "ec3a5cb61146c" \notin lsm.commits
        IN  /\ SkippedGroup(Name("riscv", <<Str("other and distro configs")>>)) <=> too_old
            /\ ~too_old => /\ PlannedVariant(Str("allmodconfig"))
                           /\ PlannedVariant(PathCfg("opensuse", "riscv64"))

\* The reason for which the i386 variants are not applicable, "" when they
\* are: the three tests in their order.
I386SkipReason ==
    IF TupleLT(lsm.version, <<5, 9, 0>>) THEN "missing 158807de5822"
    ELSE IF ~TupleLT(ClangVersion(env), <<12, 0, 0>>) /\ "bb73d07148c40" \notin lsm.commits
    THEN "missing bb73d07148c4 with LLVM > 12.0.0"
    ELSE IF env.machine # "x86_64" /\ "d5cbd80e302df" \notin lsm.commits
    THEN "missing d5cbd80e302d on a non-x86_64 host"
    ELSE ""

\* C14: once build.py has come to i386, either one of the three tests holds
\* and the only result is the skipped 'i386 kernels' with the reason of the
\* first test that holds, nothing being built, or the variants of the
\* requested targets are planned, with CROSS_COMPILE set only on a host
\* that is not x86_64 and whose tree lacks 6f5b41a2f5a63.
C14_I386Applicability ==
    (LastEvent.a = "i386" /\ LastEvent.k \in {"plan", "run"}) =>
        /\ pc # "crashed"
        /\ lkt.arch = "i386"
        /\ IF I386SkipReason # ""
           THEN /\ Len(lkt.results) = 1
                /\ lkt.results[1]["name"] = Name("i386", <<Str("kernels")>>)
                /\ lkt.results[1]["build"] = "skipped"
                /\ lkt.results[1]["reason"].text = I386SkipReason
                /\ CountEvents("make", "i386") = 0
           ELSE /\ env.clang_targets = AllClangTargets => lkt.runners # <<>>
                /\ "CROSS_COMPILE" \in DOMAIN lkt.make_vars
                      <=> (env.machine # "x86_64" /\ "6f5b41a2f5a63" \notin lsm.commits)

\* The minimum of the tree: what scripts/min-tool-version.sh prints for the
\* architecture, (0, 0, 0) without the script.
TreeMinLlvm(arch) ==
    IF "scripts/min-tool-version.sh" \in env.linux.files
    THEN env.linux.min_llvm[arch] ELSE <<0, 0, 0>>

\* The effective minimum: the greater of the tree's minimum and the hard one
\* (13.0.0 for s390, 17.0.0 for loongarch).
EffectiveMinLlvm(arch) ==
    LET hard == IF arch = "s390" THEN <<13, 0, 0>> ELSE <<17, 0, 0>>
    IN  IF TupleLT(TreeMinLlvm(arch), hard) THEN hard ELSE TreeMinLlvm(arch)

\* The run() of the architecture returned the one result 'LLVM < min'.
LlvmTooOldSkip(arch) ==
    lkt.results = <<SkipResult(Name(arch, <<Str("kernels")>>),
                               Reason("LLVM <", EffectiveMinLlvm(arch)))>>

\* A test that run() makes before it looks at the LLVM version skips the
\* architecture: for s390 Linux < 5.6.0, or binutils 2.39.50 or newer on a
\* tree without 80ddf5ce1c929; for loongarch there is none.
SkippedEarlier(arch) ==
    /\ arch = "s390"
    /\ \/ TupleLT(lsm.version, <<5, 6, 0>>)
       \/ /\ ~TupleLT(BinutilsVersion(env, <<"s390x-linux-gnu-", "as">>), <<2, 39, 50>>)
          /\ "80ddf5ce1c929" \notin lsm.commits

\* C15 as stated: for s390 and loongarch all variants are skipped with the
\* reason 'LLVM < <effective minimum>' if and only if the clang version is
\* lower than the effective minimum.
C15_Original ==
    \A arch \in {"s390", "loongarch"} :
        lkt.arch = arch =>
            (LlvmTooOldSkip(arch) <=> TupleLT(ClangVersion(env), EffectiveMinLlvm(arch)))

\* C15: for s390 and loongarch the effective minimum LLVM version is the
\* greater of the tree's minimum and the hard minimum, and all variants are
\* skipped with the reason 'LLVM < <effective minimum>' if and only if the
\* clang version is lower than it and no earlier test of run() has skipped
\* the architecture for another reason.
C15_EffectiveMinLlvm ==
    \A arch \in {"s390", "loongarch"} :
        lkt.arch = arch =>
            (LlvmTooOldSkip(arch) <=> /\ TupleLT(ClangVersion(env), EffectiveMinLlvm(arch))
                                      /\ ~SkippedEarlier(arch))

\* s390 was skipped for the hard minimum on a tree whose script asks for
\* less.
C15_Witness ==
    /\ lkt.arch = "s390"
    /\ LlvmTooOldSkip("s390")
    /\ TupleLT(<<0, 0, 0>>, TreeMinLlvm("s390"))
    /\ TupleLT(TreeMinLlvm("s390"), <<13, 0, 0>>)

\* The final make of the current variant has run.
AfterMake == pc = "boot"

\* The LLVM_IAS asked for the current variant: the override if there is
\* one, else the value of its make variables.
RequestedIAS ==
    IF "LLVM_IAS" \in DOMAIN cur.runner.override_make_vars
    THEN cur.runner.override_make_vars["LLVM_IAS"]
    ELSE cur.runner.make_vars["LLVM_IAS"]

\* The default of the tree: "1" iff scripts/Makefile.clang exists and has
\* the line 'ifeq ($(LLVM_IAS),0)'.
DefaultIAS ==
    IF /\ "scripts/Makefile.clang" \in env.linux.files
       /\ "scripts/Makefile.clang:ifeq ($(LLVM_IAS),0)" \in env.linux.files
    THEN "1" ELSE "0"

\* The assembler the build uses: what the command line says, the default
\* of the tree when it says nothing.
UsedIAS ==
    IF "LLVM_IAS" \in DOMAIN cur.make_vars THEN cur.make_vars["LLVM_IAS"] ELSE DefaultIAS

\* C16: LLVM_IAS is on the make command line of a variant exactly when the
\* requested value differs from the default of the tree, it is then passed
\* unchanged, and in all four cases the assembler used is the requested one.
C16_LlvmIasOnlyWhenNotDefault ==
    AfterMake =>
        /\ RequestedIAS \in {"0", "1"}
        /\ "LLVM_IAS" \in DOMAIN cur.make_vars <=> RequestedIAS # DefaultIAS
        /\ "LLVM_IAS" \in DOMAIN cur.make_vars => cur.make_vars["LLVM_IAS"] = RequestedIAS
        /\ UsedIAS = RequestedIAS

\* LLVM_IAS=0 was requested on a tree whose default is off, and dropped.
C16_Witness ==
    /\ AfterMake
    /\ RequestedIAS = "0"
    /\ DefaultIAS = "0"
    /\ "LLVM_IAS" \notin DOMAIN cur.make_vars

\* The value the layers give a make variable of the current variant: the
\* override, else the architecture's, else the variant's own.
LayeredValue(var) ==
    LET planned == lkt.runners[idx]
    IN  IF var \in DOMAIN planned.override_make_vars THEN planned.override_make_vars[var]
        ELSE IF var \in DOMAIN lkt.make_vars THEN lkt.make_vars[var]
        ELSE planned.make_vars[var]

\* The make variables the three layers of the current variant define.
LayeredVars ==
    DOMAIN lkt.runners[idx].override_make_vars \cup DOMAIN lkt.make_vars
        \cup DOMAIN lkt.runners[idx].make_vars

\* C17: in the make command of a variant every variable has the value of
\* the first layer that defines it (override_make_vars, then the
\* architecture's make_vars, then the variant's own with its four defaults);
\* the command has every variable of the three layers (but an LLVM_IAS that
\* is the default of the tree) and, O apart, no variable that none of the
\* layers of this variant defines, so nothing of another variant is in it.
C17_MakeVarLayers ==
    AfterMake =>
        /\ \A var \in DOMAIN cur.make_vars \ {"O"} :
              var \in LayeredVars /\ cur.make_vars[var] = LayeredValue(var)
        /\ LayeredVars \ {"LLVM_IAS"} \subseteq DOMAIN cur.make_vars
        /\ {"HOSTLDFLAGS", "LLVM", "LOCALVERSION"} \subseteq DOMAIN cur.make_vars

\* A variant that sets a variable of its own to another value than the
\* architecture does was built, after an earlier variant of the plan.
C17_Witness ==
    /\ AfterMake
    /\ idx > 1
    /\ \E var \in DOMAIN lkt.runners[idx].make_vars \cap DOMAIN lkt.make_vars :
          lkt.runners[idx].make_vars[var] # lkt.make_vars[var]

\* A gated group of variants: its architecture, the target group it belongs
\* to, the name of its skipped result, and its variants, known by their base
\* configuration and (when second is not empty) by the first option laid
\* over it.
Group(arch, target, words, base, second) ==
    [arch |-> arch, target |-> target, name |-> Name(arch, words), base |-> Str(base),
     second |-> second]

GatedGroups ==
    {Group("arm", "def", <<Str("multi_v7_defconfig"), Str("Thumb2")>>, "multi_v7_defconfig",
           {Opt("THUMB2_KERNEL", "y")}),
     Group("arm", "def", <<Str("CFI configs")>>, "multi_v7_defconfig", {Opt("CFI_CLANG", "y")}),
     Group("arm64", "def", <<Str("big endian defconfig")>>, "defconfig",
           {Opt("CPU_BIG_ENDIAN", "y")}),
     Group("arm64", "def", <<Str("LTO builds")>>, "defconfig", {Opt("LTO_CLANG_THIN", "y")}),
     Group("x86_64", "def", <<Str("LTO builds")>>, "defconfig", {Opt("LTO_CLANG_THIN", "y")}),
     Group("x86_64", "def", <<Str("CFI configs")>>, "defconfig",
           {Opt("CFI_CLANG", "y"), Opt("CFI", "y")}),
     Group("i386", "def", <<Str("LTO builds")>>, "defconfig", {Opt("LTO_CLANG_THIN", "y")}),
     Group("riscv", "def", <<Str("LTO configs")>>, "defconfig", {Opt("LTO_CLANG_THIN", "y")}),
     Group("riscv", "def", <<Str("CFI/SCS configs")>>, "defconfig",
           {Opt("CFI_CLANG", "y"), Opt("SHADOW_CALL_STACK", "y")}),
     Group("powerpc", "def", <<Str("pmac32_defconfig")>>, "pmac32_defconfig", {}),
     Group("powerpc", "other", <<Str("allmodconfig")>>, "allmodconfig", {}),
     Group("hexagon", "other", <<Str("allmodconfig")>>, "allmodconfig", {})}

\* The target group of g was planned for the current architecture: run()
\* went through its _add_..._runners and the loop over the variants began.
GroupPlanned(g) ==
    /\ lkt.arch = g.arch
    /\ pc \in {"build", "boot", "cleanup"}
    /\ g.target \in lkt.targets
    /\ g.target = "other" => ~lkt.only_test_boot

\* The planned variants of g.
GroupRunners(g) ==
    {i \in 1..Len(lkt.runners) :
        /\ lkt.runners[i].configs[1] = g.base
        /\ g.second # {} => /\ Len(lkt.runners[i].configs) > 1
                            /\ lkt.runners[i].configs[2] \in g.second}

\* The skipped results recorded under the name of g.
GroupSkips(g) ==
    {i \in 1..Len(lkt.results) :
        lkt.results[i]["name"] = g.name /\ lkt.results[i]["build"] = "skipped"}

\* C18: whenever the target group of a gated group is planned, either at
\* least one variant of the group is among the runners and no skipped
\* result has its name, or no variant is and exactly one skipped result has.
C18_RunnerOrSkip ==
    \A g \in GatedGroups :
        GroupPlanned(g) =>
            \/ GroupRunners(g) # {} /\ GroupSkips(g) = {}
            \/ GroupRunners(g) = {} /\ Cardinality(GroupSkips(g)) = 1

\* x86_64 with its LTO variant planned and its CFI variants skipped.
C18_Witness ==
    /\ lkt.arch = "x86_64"
    /\ pc = "build"
    /\ \E g, h \in GatedGroups :
          /\ g.arch = "x86_64" /\ h.arch = "x86_64"
          /\ GroupPlanned(g)
          /\ GroupRunners(g) # {} /\ GroupSkips(g) = {}
          /\ GroupRunners(h) = {} /\ Cardinality(GroupSkips(h)) = 1

\* The positions of a target in the final make command of the current
\* variant.
TargetAt(item) == {i \in 1..Len(cur.targets) : cur.targets[i] = item}

\* The position of the build target: the extra make_targets are the last
\* ones of the command.
BuildTargetAt == Len(cur.targets) - Len(cur.runner.make_targets)

\* C19: in the final make command of a variant 'olddefconfig' is a target
\* exactly when the base configuration is an out-of-tree file or a CONFIG_
\* option is layered on, and then it is the target right before the build
\* target; the build target is 'all', or the image target under
\* only_test_boot, and all extra make_targets follow it; when no option is
\* laid over an in-tree base configuration, the base configuration and its
\* fragments are the first targets of the same command, before the build
\* target, and otherwise they are not in the command.
C19_TargetOrder ==
    AfterMake =>
        LET configs == cur.runner.configs
            base == configs[1]
            options == SelectSeq(Tail(configs), IsOption)
            fragments == SelectSeq(Tail(configs), IsFragment)
            b == BuildTargetAt
            olddefconfig == TargetAt(Str("olddefconfig"))
        IN  /\ olddefconfig # {} <=> (base.t = "path" \/ options # <<>>)
            /\ b >= 1
            /\ olddefconfig \subseteq {b - 1}
            /\ cur.targets[b] = Str(IF cur.runner.only_test_boot
                                    THEN cur.runner.image_target ELSE "all")
            /\ \A i \in 1..Len(cur.runner.make_targets) :
                  cur.targets[b + i] = Str(cur.runner.make_targets[i])
            /\ IF base.t # "path" /\ options = <<>>
               THEN /\ b = Len(fragments) + 2
                    /\ cur.targets[1] = base
                    /\ \A i \in 1..Len(fragments) : cur.targets[1 + i] = fragments[i]
               ELSE b = 1 + Cardinality(olddefconfig)

\* An in-tree configuration with a fragment and no option was built under
\* only_test_boot.
C19_Witness ==
    /\ AfterMake
    /\ cur.runner.only_test_boot
    /\ cur.runner.configs[1].t # "path"
    /\ SelectSeq(Tail(cur.runner.configs), IsFragment) # <<>>
    /\ SelectSeq(Tail(cur.runner.configs), IsOption) = <<>>

\* The options the current variant was run with: those of its planner and
\* those run() added to self.configs.
RequestedOptions == SelectSeq(Tail(cur.runner.configs), IsOption)

\* The final .config has a line 'CONFIG_<name>=...'.
AssignedInConfig(cfg_name) ==
    \E line \in cur.config : line.t = "option" /\ line.s = cfg_name

\* C20: after the build, a requested option with a value other than 'n' is
\* reported missing exactly when no line of the final .config is equal to
\* it; a requested 'CONFIG_FOO=n' is reported missing exactly when the
\* .config has no line '# CONFIG_FOO is not set' and has a line that begins
\* with 'CONFIG_FOO='; nothing else is reported, so the options that
\* _build_kernel adds by itself (choice complements, distribution
\* adjustments) are not verified.
C20_MissingConfigs ==
    AfterMake =>
        /\ \A i \in 1..Len(RequestedOptions) :
              LET item == RequestedOptions[i]
              IN  InSeq(item, cur.missing) <=>
                      IF item.v # "n" THEN item \notin cur.config
                      ELSE NotSet(item.s) \notin cur.config /\ AssignedInConfig(item.s)
        /\ \A i \in 1..Len(cur.missing) : InSeq(cur.missing[i], RequestedOptions)

\* A requested '=n' whose symbol is in no line of the final .config was not
\* reported.
C20_Witness ==
    /\ AfterMake
    /\ \E i \in 1..Len(RequestedOptions) :
          /\ RequestedOptions[i].v = "n"
          /\ NotSet(RequestedOptions[i].s) \notin cur.config
          /\ ~AssignedInConfig(RequestedOptions[i].s)
          /\ ~InSeq(RequestedOptions[i], cur.missing)

\* The default variants of powerpc were planned and are being run.
PowerpcDefPlanned ==
    lkt.arch = "powerpc" /\ pc \in {"build", "boot", "cleanup"} /\ "def" \in lkt.targets

\* The planned ppc44x_defconfig variants, and the skipped results recorded
\* under the name of the variant.
Ppc44xRunners ==
    {i \in 1..Len(lkt.runners) : lkt.runners[i].configs[1] = Str("ppc44x_defconfig")}
Ppc44xSkips ==
    {i \in 1..Len(lkt.results) :
        /\ lkt.results[i]["name"] = Name("powerpc", <<Str("ppc44x_defconfig")>>)
        /\ lkt.results[i]["build"] = "skipped"}

\* The facts the decision rests on: -mcpu=440 is used with clang (commit
\* 2255411d1d0f0 without the !CC_IS_CLANG dependency of the 440 family), and
\* the lr save/restore of commit 48cf12d88969b meets an LLVM before 12.0.1.
Cbl1814 ==
    /\ "2255411d1d0f0" \in lsm.commits
    /\ "arch/powerpc/platforms/Kconfig.cputype:depends on !CC_IS_CLANG" \notin env.linux.files
Cbl1345 == TupleLT(ClangVersion(env), <<12, 0, 1>>) /\ "48cf12d88969b" \in lsm.commits

\* The three outcomes for ppc44x_defconfig.
Ppc44xSkipped == Cardinality(Ppc44xSkips) = 1 /\ Ppc44xRunners = {}
Ppc44xBuildOnly ==
    /\ Ppc44xSkips = {} /\ Cardinality(Ppc44xRunners) = 1
    /\ \A i \in Ppc44xRunners :
          /\ ~lkt.runners[i].bootable
          /\ "boot" \in DOMAIN lkt.runners[i].result
          /\ lkt.runners[i].result["boot"].status = "skipped"
Ppc44xBooted ==
    /\ Ppc44xSkips = {} /\ Cardinality(Ppc44xRunners) = 1
    /\ \A i \in Ppc44xRunners : lkt.runners[i].bootable

\* C21: when the default variants of powerpc are planned, ppc44x_defconfig
\* is skipped with one result and without a runner exactly when LLVM is older
\* than 16.0.0 and -mcpu=440 is used with clang; else it has one runner, which
\* is not bootable and has a boot result that begins with 'skipped' exactly
\* when LLVM is older than 12.0.1 with 48cf12d88969b or -mcpu=440 is used
\* with clang; else it has one bootable runner. No two of the outcomes hold
\* together, and a ppc44x_defconfig runner that is not bootable has a boot
\* result that begins with 'skipped'.
C21_Ppc44xDecision ==
    PowerpcDefPlanned =>
        LET skip == TupleLT(ClangVersion(env), <<16, 0, 0>>) /\ Cbl1814
            build_only == ~skip /\ (Cbl1345 \/ Cbl1814)
        IN  /\ Ppc44xSkipped <=> skip
            /\ Ppc44xBuildOnly <=> build_only
            /\ Ppc44xBooted <=> ~skip /\ ~build_only
            /\ \A i \in Ppc44xRunners :
                  ~lkt.runners[i].bootable
                  => /\ "boot" \in DOMAIN lkt.runners[i].result
                     /\ lkt.runners[i].result["boot"].status = "skipped"

\* LLVM 11.1.0 and a tree with 48cf12d88969b but without 2255411d1d0f0:
\* ppc44x_defconfig is built and not booted.
C21_Witness ==
    /\ PowerpcDefPlanned
    /\ Cbl1345 /\ ~Cbl1814
    /\ Ppc44xBuildOnly

\* The final make of ppc64_guest_defconfig or ppc64_defconfig has run.
Ppc64BigEndianBuilt ==
    /\ AfterMake
    /\ lkt.arch = "powerpc"
    /\ cur.runner.configs[1] \in {Str("ppc64_guest_defconfig"), Str("ppc64_defconfig")}

\* The tree builds a big endian kernel for ELFv2 by default: without the
\* symbol PPC64_BIG_ENDIAN_ELF_ABI_V2 from Linux 6.2.0 on, with it when
\* arch/powerpc/Kconfig offers the choice with ld.bfd only.
BigEndianElfV2 ==
    IF "CONFIG_PPC64_BIG_ENDIAN_ELF_ABI_V2" \in lsm.configs
    THEN "arch/powerpc/Kconfig:ELF ABI V2 if LD_IS_BFD" \in env.linux.files
    ELSE ~TupleLT(lsm.version, <<6, 2, 0>>)

\* The integrated assembler is known to work for powerpc.
PowerpcIasWorks ==
    ~TupleLT(lsm.version, <<5, 18, 0>>) /\ ~TupleLT(ClangVersion(env), <<14, 0, 2>>)

\* C22: ppc64_guest_defconfig and ppc64_defconfig are built with
\* LD=<CROSS_COMPILE>ld and with GNU as (LLVM_IAS 0) when the tree does not
\* default big endian to ELFv2, whatever the versions; otherwise LD is not on
\* the command line and LLVM_IAS is 1 exactly when Linux >= 5.18.0 and
\* LLVM >= 14.0.2, and 0 if not; LD and LLVM_IAS are as planned for the
\* variant, the variables of the architecture change neither.
C22_Ppc64BigEndianVars ==
    Ppc64BigEndianBuilt =>
        /\ UsedIAS \in {"0", "1"}
        /\ UsedIAS = cur.runner.make_vars["LLVM_IAS"]
        /\ cur.runner.make_vars["LLVM_IAS"] = lkt.runners[idx].make_vars["LLVM_IAS"]
        /\ "LD" \in DOMAIN cur.make_vars <=> "LD" \in DOMAIN lkt.runners[idx].make_vars
        /\ "LD" \in DOMAIN cur.make_vars =>
                cur.make_vars["LD"] = lkt.runners[idx].make_vars["LD"]
        /\ IF ~BigEndianElfV2
           THEN /\ "LD" \in DOMAIN cur.make_vars
                /\ cur.make_vars["LD"] = <<cur.make_vars["CROSS_COMPILE"], "ld">>
                /\ UsedIAS = "0"
           ELSE /\ "LD" \notin DOMAIN cur.make_vars
                /\ UsedIAS = "1" <=> PowerpcIasWorks

\* A big endian variant built for ELFv1 with GNU as and GNU ld although the
\* integrated assembler works with this Linux and this LLVM.
C22_Witness ==
    /\ Ppc64BigEndianBuilt
    /\ ~BigEndianElfV2
    /\ PowerpcIasWorks
    /\ UsedIAS = "0"
    /\ "LD" \in DOMAIN cur.make_vars

\* The comparisons were evaluated.
Compared == pc = "compared"

\* Lexicographic order of two integer tuples of the same length: they
\* differ, and at the first position where they do the left one is smaller.
LexLess(x, y) ==
    \E i \in 1..Len(x) : x[i] < y[i] /\ \A j \in 1..(i - 1) : x[j] = y[j]

\* What lexicographic comparison of the tuples answers for an operator.
LexAnswer(op, x, y) ==
    CASE op = "==" -> x = y
      [] op = "!=" -> x # y
      [] op = "<" -> LexLess(x, y)
      [] op = "<=" -> LexLess(x, y) \/ x = y
      [] op = ">" -> LexLess(y, x)
      [] OTHER -> LexLess(y, x) \/ x = y

\* C23: for operands that are Version objects or plain integer tuples of
\* the same length, in either order, each of ==, <, <=, > and >= answers what
\* lexicographic comparison of the underlying tuples answers (never
\* NotImplemented, never a TypeError); of a < b, a == b and a > b exactly one
\* is true, and a <= b and b <= c give a <= c.
C23_VersionComparison ==
    Compared =>
        /\ \A op \in CompareOps \ {"!="} : \A i, j \in 1..Len(cur) :
              results[op][i][j] = PyBool(LexAnswer(op, cur[i].key, cur[j].key))
        /\ \A i, j \in 1..Len(cur) :
              Cardinality({op \in {"<", "==", ">"} : results[op][i][j] = "True"}) = 1
        /\ \A i, j, k \in 1..Len(cur) :
              results["<="][i][j] = "True" /\ results["<="][j][k] = "True"
              => results["<="][i][k] = "True"

\* A plain tuple was on the left of a Version object with the same key, as
\* in 'lsm.version < LinuxVersion(5, 13, 0)' for Linux 5.13.0, with a third
\* operand greater than both.
C23_Witness ==
    /\ Compared
    /\ cur[1].kind = "tuple" /\ cur[2].kind = "Version" /\ cur[1].key = cur[2].key
    /\ results["<"][1][2] = "False"
    /\ results["<="][1][2] = "True"
    /\ results["<"][2][3] = "True"

\* The architectures that are cross-compiled from every host the program
\* runs on.
AlwaysCrossCompiled == {"arm", "mips", "riscv", "s390"}

\* The final make of a variant of this architecture has run with GNU as
\* selected: LLVM_IAS=0 on the command line, or left out on a tree whose
\* default it is.
BuiltWithGnuAs(arch) == AfterMake /\ lkt.arch = arch /\ UsedIAS = "0"

\* C24: for arm, riscv, mips and s390, a make command with GNU as selected
\* has CROSS_COMPILE among its variables.
C24_GnuAsHasCrossCompile ==
    \A arch \in AlwaysCrossCompiled :
        BuiltWithGnuAs(arch) => "CROSS_COMPILE" \in DOMAIN cur.make_vars

\* ---- end of definitions ----
====
